---- MODULE Spec2Model ----
(***************************************************************************)
(* State-machine model of the batch scripts of nimh-dsst/utils:            *)
(*   metapub_download.py  rate limiter (find_with_timeout prologue) and    *)
(*                        chunked coordinator (get_urls, gather_urls, main)*)
(*   download_pdfs.py     download_pdf, process_chunk, main                *)
(*   aws_download.py      download_file, parallel_download                 *)
(*   aws_upload.py        upload_file, parallel_upload                     *)
(*   verify_pdfs.py       writer_process, process_pdf,                     *)
(*                        process_pdfs_parallel                            *)
(*   s3_csv_inventory.py  parse_csv_pmids, get_s3_pmids, analyze_pmids     *)
(*   aws_upload.py        parse_csv_inventory, get_s3_inventory,           *)
(*                        filter_upload_list                               *)
(*   aws_download.py      read_pmid_locations                              *)
(* Every script is a program of its own: each has its own specification,   *)
(* which leaves the variables of the other scripts unchanged.              *)
(***************************************************************************)
EXTENDS Integers, Sequences, FiniteSets, TLC

(***************************************************************************)
(* Bounds of the model.                                                    *)
(***************************************************************************)
\* clock ticks per second of the rate limiter's clock
TicksPerSecond == 60
\* the rate limiter's clock stops at StartTime + MaxTime
MaxTime == 4
\* executor threads calling find_with_timeout concurrently
NThreads == 2
\* calls of find_with_timeout per thread
MaxCalls == 2
\* PMIDs of the manifest of metapub_download.py
NPmids == 3
\* chunk size of the chunked coordinators (10 in the scripts, scaled down)
chunk_size == 2
\* threads of the default executor of the event loop
MaxWorkers == 2
\* rows of the CSV file read by download_pdfs.py
NRows == 3
\* entries of the file manifest of aws_download.py
NFiles == 3
\* max_workers of parallel_download (scaled down)
max_workers == 2
\* files of the upload list of aws_upload.py
NUploads == 3
\* num_threads of parallel_upload (scaled down)
num_threads == 2
\* PDF files in the directory of verify_pdfs.py
NPdfs == 3
\* num_processes of process_pdfs_parallel (12 by default, scaled down)
num_processes == 2
\* rows of the CSV files read by s3_csv_inventory.py and aws_upload.py
MaxCsvRows == 3
\* calls of analyze_pmids and of filter_upload_list in a run
MaxRuns == 2
\* lines of found_pmids.txt read by aws_download.py
MaxLines == 2
\* objects in the bucket listed by s3_csv_inventory.py and aws_upload.py
MaxObjects == 2

(***************************************************************************)
(* metapub_download.py, module level (lines 24-28).                        *)
(***************************************************************************)
REQUESTS_PER_SECOND == 30
\* DELAY = 1.0 / REQUESTS_PER_SECOND, in clock ticks
DELAY == TicksPerSecond \div REQUESTS_PER_SECOND
\* time.time() at the first call: the epoch is long past, so the first call
\* finds current_time - 0 >= DELAY
StartTime == DELAY

Threads == 1..NThreads

VARIABLES
    \* ---- metapub_download.py: rate limiter ----
    now,                \* time.time(), in ticks
    last_request_time,  \* the global _last_request_time
    rl_pc,              \* per thread: position in find_with_timeout
    current_time,       \* per thread: the local current_time (line 34)
    wake,               \* per thread: the time at which time.sleep returns
    calls,              \* per thread: calls of find_with_timeout made
    permits             \* times at which the prologue was passed (line 41)

rlvars == <<now, last_request_time, rl_pc, current_time, wake, calls, permits>>

VARIABLES
    \* ---- metapub_download.py: get_urls, gather_urls, main ----
    gu_pc,              \* position of gather_urls / main
    gu_i,               \* the loop variable i of gather_urls (line 160)
    task,               \* per PMID: the get_urls task and its result
    work,               \* per PMID: the executor's work item find_with_timeout
    all_results,        \* the list all_results (line 153)
    timed_out_chunks,   \* chunk numbers logged at line 195
    missing_pmids_urls  \* the file missing_pmids_urls.csv (line 224)

guvars == <<gu_pc, gu_i, task, work, all_results, timed_out_chunks,
            missing_pmids_urls>>

VARIABLES
    \* ---- download_pdfs.py: download_pdf, process_chunk, main ----
    dp_pc,              \* position of main
    dp_i,               \* the chunk number i of main (line 120)
    df,                 \* per row: the URL and Backup URL cells, once read
    dl,                 \* per row: position of its download_pdf task
    dl_result,          \* per row: what its task ended with
    requests,           \* per row: the session.get calls issued, in order
    responses,          \* per row: how each of these calls ended
    pdf_file,           \* per row: the file pdfs/<pmid>.pdf
    results,            \* the list results (line 109)
    download_results    \* the file download_results_<epoch>.csv (line 133)

dpvars == <<dp_pc, dp_i, df, dl, dl_result, requests, responses, pdf_file,
            results, download_results>>

VARIABLES
    \* ---- aws_download.py: download_file, parallel_download ----
    ad_pc,              \* position of parallel_download
    ad_state,           \* per entry: position of its download_file call
    ad_attempts,        \* per entry: how each s3 download_file call ended
    ad_result,          \* per entry: the result of its future
    ad_collected,       \* futures as_completed has yielded
    success_count,      \* line 120
    failure_count,      \* line 121
    ad_summary          \* the summary logged at lines 148-151

advars == <<ad_pc, ad_state, ad_attempts, ad_result, ad_collected,
            success_count, failure_count, ad_summary>>

VARIABLES
    \* ---- aws_upload.py: upload_file, parallel_upload ----
    au_pc,              \* position of parallel_upload
    au_state,           \* per file: its future
    au_next,            \* index of the next result executor.map yields
    au_results,         \* the list results (line 191)
    au_summary          \* the summary logged at lines 195-199

auvars == <<au_pc, au_state, au_next, au_results, au_summary>>

VARIABLES
    \* ---- verify_pdfs.py: writer_process, process_pdf, process_pdfs_parallel
    vp_pc,              \* position of process_pdfs_parallel
    vp_work,            \* per PDF file: position of its process_pdf call
    queue,              \* result_queue (line 251)
    done_event,         \* done_event (line 252)
    wr_pc,              \* position of writer_process
    wr_result,          \* the local result of writer_process (line 208)
    csv_rows,           \* the rows written to output_csv (line 209)
    wr_errors           \* results reported at line 213

vpvars == <<vp_pc, vp_work, queue, done_event, wr_pc, wr_result, csv_rows,
            wr_errors>>

VARIABLES
    \* ---- s3_csv_inventory.py, aws_upload.py (main before parallel_upload)
    \* ---- and aws_download.py (read_pmid_locations): manifests
    rc_script,          \* the script that runs: each is a process of its own
    rc_pc,              \* position in its main
    rc_log,             \* the records logged by the parsing functions
    s3_objects,         \* the names of the objects list_objects_v2 returns
    pmid_csv,           \* s3_csv_inventory: the PMID cells of the CSV rows
    has_header,         \* s3_csv_inventory: --has-header
    csv_pmids,          \* s3_csv_inventory: main, line 225
    seen_pmids,         \* s3_csv_inventory: parse_csv_pmids, line 42
    s3_pmids,           \* s3_csv_inventory: main, line 228
    analysis,           \* s3_csv_inventory: what the calls of analyze_pmids
                        \* returned, in order (main, line 231)
    inventory_csv,      \* aws_upload: the name cells of the CSV rows
    upload_list,        \* aws_upload: main, line 230
    processed_accessions, \* aws_upload: main, line 230
    s3_inventory,       \* aws_upload: main, line 235
    filtered_list,      \* aws_upload: what the calls of filter_upload_list
                        \* returned, in order (main, line 239)
    found_pmids,        \* aws_download: the lines of found_pmids.txt
    file_manifest       \* aws_download: line 173

rcvars == <<rc_script, rc_pc, rc_log, s3_objects, pmid_csv, has_header,
            csv_pmids, seen_pmids, s3_pmids, analysis, inventory_csv,
            upload_list, processed_accessions, s3_inventory, filtered_list,
            found_pmids, file_manifest>>

VARIABLES
    \* ---- aws_download.py: get_optimal_worker_count ----
    wc_pc,              \* position of get_optimal_worker_count
    cpu_count,          \* line 160
    worker_count        \* line 162

wcvars == <<wc_pc, cpu_count, worker_count>>

VARIABLES
    \* ---- rename_and_upload.py: rename_and_upload_pdfs ----
    ru_pc,              \* position of rename_and_upload_pdfs
    ru_csv,             \* the CSV file at csv_path and the files it names
    ru_i,               \* the row of df the loop of line 47 is at
    ru_runs             \* per call, in order: its dry_run, whether it created
                        \* the S3 client (line 37), the rows it logged at
                        \* line 68, the calls of upload_file (line 78), and
                        \* how it ended

ruvars == <<ru_pc, ru_csv, ru_i, ru_runs>>

VARIABLES
    \* ---- metapub_download.py: one PMID of a chunk, with time ----
    lk_clock,           \* seconds since gather_urls awaits the chunk
    lk_chunk,           \* the wait_for of gather_urls (line 173)
    lk_item,            \* the get_urls task of the PMID and its Reason
    lk_work,            \* position of find_with_timeout in its thread
    lk_started,         \* when future.result began to wait (line 47)
    lk_findit,          \* the FindIt call in the inner executor (line 45)
    lk_ret,             \* what find_with_timeout returns
    lk_fired            \* the timeouts that expired, in order

lkvars == <<lk_clock, lk_chunk, lk_item, lk_work, lk_started, lk_findit,
            lk_ret, lk_fired>>

VARIABLES
    \* ---- find_pmids_in_s3.py: get_existing_pdfs, check_single_pmid,
    \* ---- check_pmids_in_s3 ----
    fp_pc,              \* position of check_pmids_in_s3
    fp_pmids,           \* the PMIDs read_pmids_from_csv returned
    fp_listing,         \* the keys list_objects_v2 returns for Prefix="pdfs/"
    existing_pdfs,      \* line 105
    fp_done,            \* the PMIDs whose future as_completed has yielded
    fp_results          \* results (line 102)

fpvars == <<fp_pc, fp_pmids, fp_listing, existing_pdfs, fp_done, fp_results>>

VARIABLES
    \* ---- aws_download.py: __main__ ----
    dm_pc,              \* position of the script
    dm_lines,           \* the lines of found_pmids.txt
    dm_manifest,        \* file_manifest (line 173)
    bucket_name,        \* line 177
    dm_submitted        \* the download_file calls parallel_download submits:
                        \* bucket, key and local path of each (lines 70-78)

dmvars == <<dm_pc, dm_lines, dm_manifest, bucket_name, dm_submitted>>

vars == <<rlvars, guvars, dpvars, advars, auvars, vpvars, rcvars, wcvars,
          ruvars, lkvars, fpvars, dmvars>>

OnlyRL == UNCHANGED <<guvars, dpvars, advars, auvars, vpvars, rcvars,
                      wcvars, ruvars, lkvars, fpvars, dmvars>>
OnlyGU == UNCHANGED <<rlvars, dpvars, advars, auvars, vpvars, rcvars,
                      wcvars, ruvars, lkvars, fpvars, dmvars>>
OnlyDP == UNCHANGED <<rlvars, guvars, advars, auvars, vpvars, rcvars,
                      wcvars, ruvars, lkvars, fpvars, dmvars>>
OnlyAD == UNCHANGED <<rlvars, guvars, dpvars, auvars, vpvars, rcvars,
                      wcvars, ruvars, lkvars, fpvars, dmvars>>
OnlyAU == UNCHANGED <<rlvars, guvars, dpvars, advars, vpvars, rcvars,
                      wcvars, ruvars, lkvars, fpvars, dmvars>>
OnlyVP == UNCHANGED <<rlvars, guvars, dpvars, advars, auvars, rcvars,
                      wcvars, ruvars, lkvars, fpvars, dmvars>>
OnlyRC == UNCHANGED <<rlvars, guvars, dpvars, advars, auvars, vpvars,
                      wcvars, ruvars, lkvars, fpvars, dmvars>>
OnlyWC == UNCHANGED <<rlvars, guvars, dpvars, advars, auvars, vpvars,
                      rcvars, ruvars, lkvars, fpvars, dmvars>>
OnlyRU == UNCHANGED <<rlvars, guvars, dpvars, advars, auvars, vpvars,
                      rcvars, wcvars, lkvars, fpvars, dmvars>>
OnlyLK == UNCHANGED <<rlvars, guvars, dpvars, advars, auvars, vpvars,
                      rcvars, wcvars, ruvars, fpvars, dmvars>>
OnlyFP == UNCHANGED <<rlvars, guvars, dpvars, advars, auvars, vpvars,
                      rcvars, wcvars, ruvars, lkvars, dmvars>>
OnlyDM == UNCHANGED <<rlvars, guvars, dpvars, advars, auvars, vpvars,
                      rcvars, wcvars, ruvars, lkvars, fpvars>>

----------------------------------------------------------------------------
(***************************************************************************)
(* Rate limiter: metapub_download.py find_with_timeout, lines 31-41.       *)
(***************************************************************************)
RLInit ==
    /\ now = StartTime
    /\ last_request_time = 0
    /\ rl_pc = [t \in Threads |-> "idle"]
    /\ current_time = [t \in Threads |-> 0]
    /\ wake = [t \in Threads |-> 0]
    /\ calls = [t \in Threads |-> 0]
    /\ permits = <<>>

\* get_urls hands find_with_timeout to an executor thread (lines 67-70)
RL_Call(t) ==
    /\ rl_pc[t] = "idle"
    /\ calls[t] < MaxCalls
    /\ rl_pc' = [rl_pc EXCEPT ![t] = "L34"]
    /\ calls' = [calls EXCEPT ![t] = @ + 1]
    /\ UNCHANGED <<now, last_request_time, current_time, wake, permits>>
    /\ OnlyRL

\* line 34: current_time = time.time()
RL_ReadTime(t) ==
    /\ rl_pc[t] = "L34"
    /\ current_time' = [current_time EXCEPT ![t] = now]
    /\ rl_pc' = [rl_pc EXCEPT ![t] = "L35"]
    /\ UNCHANGED <<now, last_request_time, wake, calls, permits>>
    /\ OnlyRL

\* lines 35-40: read _last_request_time, decide to sleep
time_since_last_request(t) == current_time[t] - last_request_time

RL_ReadLast(t) ==
    /\ rl_pc[t] = "L35"
    /\ IF time_since_last_request(t) < DELAY
          THEN /\ wake' = [wake EXCEPT ![t] = now + (DELAY - time_since_last_request(t))]
               /\ rl_pc' = [rl_pc EXCEPT ![t] = "L40"]
          ELSE /\ rl_pc' = [rl_pc EXCEPT ![t] = "L41"]
               /\ UNCHANGED wake
    /\ UNCHANGED <<now, last_request_time, current_time, calls, permits>>
    /\ OnlyRL

\* line 40: time.sleep returns once its duration has passed
RL_Wake(t) ==
    /\ rl_pc[t] = "L40"
    /\ now >= wake[t]
    /\ rl_pc' = [rl_pc EXCEPT ![t] = "L41"]
    /\ UNCHANGED <<now, last_request_time, current_time, wake, calls, permits>>
    /\ OnlyRL

\* line 41: _last_request_time = time.time(); the permit is granted and the
\* thread goes on to the FindIt call (lines 43-61), after which it is free
RL_Write(t) ==
    /\ rl_pc[t] = "L41"
    /\ last_request_time' = now
    /\ permits' = Append(permits, now)
    /\ rl_pc' = [rl_pc EXCEPT ![t] = "idle"]
    /\ UNCHANGED <<now, current_time, wake, calls>>
    /\ OnlyRL

\* the clock
RL_Tick ==
    /\ now < StartTime + MaxTime
    /\ now' = now + 1
    /\ UNCHANGED <<last_request_time, rl_pc, current_time, wake, calls, permits>>
    /\ OnlyRL

NextRateLimiter ==
    \/ \E t \in Threads : RL_Call(t)
    \/ \E t \in Threads : RL_ReadTime(t)
    \/ \E t \in Threads : RL_ReadLast(t)
    \/ \E t \in Threads : RL_Wake(t)
    \/ \E t \in Threads : RL_Write(t)
    \/ RL_Tick

----------------------------------------------------------------------------
(***************************************************************************)
(* Chunked lookup: metapub_download.py get_urls, gather_urls, main.        *)
(* list(pmids) is 1..NPmids; a result of a task is a record: the dict a    *)
(* coroutine returns (exc = FALSE) or an exception object (exc = TRUE).    *)
(***************************************************************************)
PMIDs == 1..NPmids
total_pmids == NPmids

NoResult == [exc |-> FALSE, PMID |-> 0, Reason |-> "-"]
Outcome(pmid, reason) == [exc |-> FALSE, PMID |-> pmid, Reason |-> reason]

\* line 161: chunk = list(pmids)[i : i + chunk_size]
Min(a, b) == IF a < b THEN a ELSE b
chunk(i) == [k \in 1..Min(chunk_size, total_pmids - i) |-> i + k]
\* line 162: chunk_num = i // chunk_size + 1
chunk_num(i) == i \div chunk_size + 1
\* the chunk number of a PMID of the list
ChunkNumOf(p) == chunk_num(((p - 1) \div chunk_size) * chunk_size)
InChunk(i) == {chunk(i)[k] : k \in 1..Len(chunk(i))}

GUInit ==
    /\ gu_pc = "loop"
    /\ gu_i = 0
    /\ task = [p \in PMIDs |-> [state |-> "none", result |-> NoResult]]
    /\ work = [p \in PMIDs |-> "none"]
    /\ all_results = <<>>
    /\ timed_out_chunks = {}
    /\ missing_pmids_urls = [exists |-> FALSE, rows |-> <<>>]

\* lines 160-176: the tasks of the chunk are created and awaited under the
\* whole-chunk timeout; each get_urls hands find_with_timeout to the default
\* executor (lines 67-70), whose queue the work item enters
GU_Dispatch ==
    /\ gu_pc = "loop"
    /\ gu_i < total_pmids
    /\ task' = [p \in PMIDs |->
                  IF p \in InChunk(gu_i)
                     THEN [state |-> "awaiting", result |-> NoResult]
                     ELSE task[p]]
    /\ work' = [p \in PMIDs |-> IF p \in InChunk(gu_i) THEN "queued" ELSE work[p]]
    /\ gu_pc' = "await"
    /\ UNCHANGED <<gu_i, all_results, timed_out_chunks, missing_pmids_urls>>
    /\ OnlyGU

\* an executor thread takes the work item and runs find_with_timeout
Running == {p \in PMIDs : work[p] = "running"}

GU_ThreadStart(p) ==
    /\ work[p] = "queued"
    /\ Cardinality(Running) < MaxWorkers
    /\ work' = [work EXCEPT ![p] = "running"]
    /\ UNCHANGED <<gu_pc, gu_i, task, all_results, timed_out_chunks,
                   missing_pmids_urls>>
    /\ OnlyGU

\* lines 74-84 and 86-124: the dict get_urls returns for what
\* find_with_timeout returned (None, lines 50-61, or the article, line 49)
ArticleOutcome(p, r) ==
    IF r = "None" THEN Outcome(p, "Timeout or error in FindIt")
                  ELSE Outcome(p, "article")

\* find_with_timeout returns in its thread; a get_urls still awaiting it
\* resumes and returns its dict
GU_ThreadFinish(p, r) ==
    /\ work[p] = "running"
    /\ work' = [work EXCEPT ![p] = "finished"]
    /\ task' = IF task[p].state = "awaiting"
                  THEN [task EXCEPT ![p] = [state |-> "done",
                                            result |-> ArticleOutcome(p, r)]]
                  ELSE task
    /\ UNCHANGED <<gu_pc, gu_i, all_results, timed_out_chunks, missing_pmids_urls>>
    /\ OnlyGU

\* line 71 and lines 125-148: the wait_for of get_urls times out; the awaited
\* future is cancelled, which takes a queued work item out of the executor
\* and leaves a running one running; get_urls returns a dict for the PMID
CancelWork(w) == IF w = "queued" THEN "cancelled" ELSE w

GU_ItemTimeout(p) ==
    /\ task[p].state = "awaiting"
    /\ task' = [task EXCEPT ![p] = [state |-> "done",
                                    result |-> Outcome(p, "Timeout")]]
    /\ work' = [work EXCEPT ![p] = CancelWork(@)]
    /\ UNCHANGED <<gu_pc, gu_i, all_results, timed_out_chunks, missing_pmids_urls>>
    /\ OnlyGU

\* lines 179-188: the results that are no exception objects
gu_processed_results(chunk_results) ==
    SelectSeq(chunk_results, LAMBDA result : ~result.exc)

\* lines 177-193 and 203-206: gather completed; the processed results are
\* appended to all_results; the coordinator sleeps
GU_GatherDone ==
    /\ gu_pc = "await"
    /\ \A p \in InChunk(gu_i) : task[p].state = "done"
    /\ all_results' = all_results \o
          gu_processed_results([k \in 1..Len(chunk(gu_i)) |->
                                   task[chunk(gu_i)[k]].result])
    /\ gu_pc' = "sleep"
    /\ UNCHANGED <<gu_i, task, work, timed_out_chunks, missing_pmids_urls>>
    /\ OnlyGU

\* lines 194-198: the wait_for of the chunk times out: the gather and the
\* tasks still awaiting are cancelled, the error is logged, and the loop
\* continues with the next chunk
GU_ChunkTimeout ==
    /\ gu_pc = "await"
    /\ \E p \in InChunk(gu_i) : task[p].state = "awaiting"
    /\ task' = [p \in PMIDs |->
                  IF p \in InChunk(gu_i) /\ task[p].state = "awaiting"
                     THEN [state |-> "cancelled", result |-> NoResult]
                     ELSE task[p]]
    /\ work' = [p \in PMIDs |->
                  IF p \in InChunk(gu_i) /\ task[p].state = "awaiting"
                     THEN CancelWork(work[p])
                     ELSE work[p]]
    /\ timed_out_chunks' = timed_out_chunks \cup {chunk_num(gu_i)}
    /\ gu_i' = gu_i + chunk_size
    /\ gu_pc' = "loop"
    /\ UNCHANGED <<all_results, missing_pmids_urls>>
    /\ OnlyGU

\* line 206: the sleep between chunks ends; next iteration of the loop
GU_SleepDone ==
    /\ gu_pc = "sleep"
    /\ gu_i' = gu_i + chunk_size
    /\ gu_pc' = "loop"
    /\ UNCHANGED <<task, work, all_results, timed_out_chunks, missing_pmids_urls>>
    /\ OnlyGU

\* lines 208-209: the loop is over, gather_urls returns DataFrame(all_results)
GU_Return ==
    /\ gu_pc = "loop"
    /\ gu_i >= total_pmids
    /\ gu_pc' = "returned"
    /\ UNCHANGED <<gu_i, task, work, all_results, timed_out_chunks,
                   missing_pmids_urls>>
    /\ OnlyGU

\* main, lines 222-225: the returned frame is written to the CSV file
MP_SaveCsv ==
    /\ gu_pc = "returned"
    /\ missing_pmids_urls' = [exists |-> TRUE, rows |-> all_results]
    /\ gu_pc' = "saved"
    /\ UNCHANGED <<gu_i, task, work, all_results, timed_out_chunks>>
    /\ OnlyGU

\* KeyboardInterrupt while asyncio.run(main()) runs: main is cancelled, which
\* is no Exception (line 226); the finally block cancels the tasks (lines
\* 229-236); line 247 logs the interruption; nothing is written
MP_KeyboardInterrupt ==
    /\ gu_pc \in {"loop", "await", "sleep", "returned"}
    /\ gu_pc' = "interrupted"
    /\ task' = [p \in PMIDs |->
                  IF task[p].state = "awaiting"
                     THEN [state |-> "cancelled", result |-> NoResult]
                     ELSE task[p]]
    /\ work' = [p \in PMIDs |->
                  IF task[p].state = "awaiting" THEN CancelWork(work[p])
                                                ELSE work[p]]
    /\ UNCHANGED <<gu_i, all_results, timed_out_chunks, missing_pmids_urls>>
    /\ OnlyGU

NextGatherUrls ==
    \/ GU_Dispatch
    \/ \E p \in PMIDs : GU_ThreadStart(p)
    \/ \E p \in PMIDs, r \in {"article", "None"} : GU_ThreadFinish(p, r)
    \/ \E p \in PMIDs : GU_ItemTimeout(p)
    \/ GU_GatherDone
    \/ GU_ChunkTimeout
    \/ GU_SleepDone
    \/ GU_Return
    \/ MP_SaveCsv
    \/ MP_KeyboardInterrupt

----------------------------------------------------------------------------
(***************************************************************************)
(* Chunked download: download_pdfs.py download_pdf, process_chunk, main.   *)
(* Row p of the CSV file holds PMID p. A cell is "http" (a URL) or "NaN":   *)
(* pd.read_csv (line 102) reads an empty cell as NaN, so that the empty    *)
(* string "" does not come out of it. The cells of a row are drawn when    *)
(* process_chunk reads the row (line 90).                                  *)
(***************************************************************************)
Rows == 1..NRows
Cells == {"NaN", "http"}
NotRead == [URL |-> "-", Backup |-> "-"]

DlOutcome(pmid, status) == [exc |-> FALSE, PMID |-> pmid, Status |-> status]
DlException(name) == [exc |-> TRUE, PMID |-> 0, Status |-> name]
NoDlResult == [exc |-> FALSE, PMID |-> 0, Status |-> "-"]

\* line 106: chunks = [df[i : i + chunk_size] for i in range(0, len(df), chunk_size)]
\* chunk number i (from 1, line 120) holds these rows
chunk_rows(i) ==
    [k \in 1..Min(chunk_size, NRows - (i - 1) * chunk_size) |->
        (i - 1) * chunk_size + k]
\* line 107: total_chunks = len(chunks)
total_chunks == (NRows + chunk_size - 1) \div chunk_size
RowsOfChunk(i) == {chunk_rows(i)[k] : k \in 1..Len(chunk_rows(i))}
DpChunkOf(p) == (p - 1) \div chunk_size + 1

\* lines 37 and 55: `url and pd.notna(url)`
HasCandidate_TruthyOnly(cell) == cell # ""
HasCandidate(cell) == cell # "" /\ cell # "NaN"

DPInit ==
    /\ dp_pc = "loop"
    /\ dp_i = 1
    /\ df = [p \in Rows |-> NotRead]
    /\ dl = [p \in Rows |-> "none"]
    /\ dl_result = [p \in Rows |-> NoDlResult]
    /\ requests = [p \in Rows |-> <<>>]
    /\ responses = [p \in Rows |-> <<>>]
    /\ pdf_file = [p \in Rows |-> "absent"]
    /\ results = <<>>
    /\ download_results = [exists |-> FALSE, rows |-> <<>>]

\* process_chunk, lines 88-96: one download_pdf task per row of the chunk,
\* all awaited together
DP_ProcessChunk ==
    /\ dp_pc = "loop"
    /\ dp_i <= total_chunks
    /\ \E cells \in [RowsOfChunk(dp_i) -> [URL : Cells, Backup : Cells]] :
          df' = [p \in Rows |-> IF p \in RowsOfChunk(dp_i) THEN cells[p] ELSE df[p]]
    /\ dl' = [p \in Rows |-> IF p \in RowsOfChunk(dp_i) THEN "L33" ELSE dl[p]]
    /\ dp_pc' = "gather"
    /\ UNCHANGED <<dp_i, dl_result, requests, responses, pdf_file, results,
                   download_results>>
    /\ OnlyDP

\* download_pdf, lines 29-33: os.makedirs is outside the try block; when it
\* raises, the task ends with the exception
DP_Makedirs(p, ok) ==
    /\ dl[p] = "L33"
    /\ IF ok
          THEN /\ dl' = [dl EXCEPT ![p] = "L37"]
               /\ UNCHANGED dl_result
          ELSE /\ dl' = [dl EXCEPT ![p] = "done"]
               /\ dl_result' = [dl_result EXCEPT ![p] = DlException("OSError")]
    /\ UNCHANGED <<dp_pc, dp_i, df, requests, responses, pdf_file, results,
                   download_results>>
    /\ OnlyDP

\* lines 37-39: the primary URL is requested when there is one
DP_TryPrimary(p) ==
    /\ dl[p] = "L37"
    /\ IF HasCandidate(df[p].URL)
          THEN /\ requests' = [requests EXCEPT ![p] = Append(@, "URL")]
               /\ dl' = [dl EXCEPT ![p] = "L39"]
          ELSE /\ dl' = [dl EXCEPT ![p] = "L55"]
               /\ UNCHANGED requests
    /\ UNCHANGED <<dp_pc, dp_i, df, dl_result, responses, pdf_file, results,
                   download_results>>
    /\ OnlyDP

\* How a request ends:
\*   "200"          status 200, body read and written (lines 40-50, 58-68)
\*   "failed"       another status (the `if` of line 40 or 58 is skipped) or
\*                  session.get raises (lines 51-52, 69-70): the file is
\*                  not touched
\*   "write_error"  status 200, the file is opened ("wb") and reading the
\*                  body or writing it raises (lines 41-42, 59-60)
Responses == {"200", "failed", "write_error"}

\* lines 41-42, 59-60: the file after a request that ended with r
FileAfter(file, r) ==
    CASE r = "200" -> "complete"
      [] r = "write_error" -> "partial"
      [] OTHER -> file

\* a download_pdf that goes on to the backup URL after every primary
\* response, status 200 included
DP_PrimaryResponse_NoReturn(p, r) ==
    /\ dl[p] = "L39"
    /\ responses' = [responses EXCEPT ![p] = Append(@, r)]
    /\ pdf_file' = [pdf_file EXCEPT ![p] = FileAfter(@, r)]
    /\ dl' = [dl EXCEPT ![p] = "L55"]
    /\ UNCHANGED dl_result
    /\ UNCHANGED <<dp_pc, dp_i, df, requests, results, download_results>>
    /\ OnlyDP

\* lines 39-52: the request of the primary URL ends
DP_PrimaryResponse(p, r) ==
    /\ dl[p] = "L39"
    /\ responses' = [responses EXCEPT ![p] = Append(@, r)]
    /\ pdf_file' = [pdf_file EXCEPT ![p] = FileAfter(@, r)]
    /\ IF r = "200"
          THEN /\ dl' = [dl EXCEPT ![p] = "done"]
               /\ dl_result' = [dl_result EXCEPT ![p] = DlOutcome(p, "success")]
          ELSE /\ dl' = [dl EXCEPT ![p] = "L55"]
               /\ UNCHANGED dl_result
    /\ UNCHANGED <<dp_pc, dp_i, df, requests, results, download_results>>
    /\ OnlyDP

\* lines 55-57 and 72-74: the backup URL is requested when there is one;
\* without one the download has failed
DP_TryBackup(p) ==
    /\ dl[p] = "L55"
    /\ IF HasCandidate(df[p].Backup)
          THEN /\ requests' = [requests EXCEPT ![p] = Append(@, "Backup URL")]
               /\ dl' = [dl EXCEPT ![p] = "L57"]
               /\ UNCHANGED dl_result
          ELSE /\ dl' = [dl EXCEPT ![p] = "done"]
               /\ dl_result' = [dl_result EXCEPT ![p] = DlOutcome(p, "failed")]
               /\ UNCHANGED requests
    /\ UNCHANGED <<dp_pc, dp_i, df, responses, pdf_file, results, download_results>>
    /\ OnlyDP

\* lines 57-74: the request of the backup URL ends
DP_BackupResponse(p, r) ==
    /\ dl[p] = "L57"
    /\ responses' = [responses EXCEPT ![p] = Append(@, r)]
    /\ pdf_file' = [pdf_file EXCEPT ![p] = FileAfter(@, r)]
    /\ dl' = [dl EXCEPT ![p] = "done"]
    /\ dl_result' = [dl_result EXCEPT ![p] =
                        IF r = "200" THEN DlOutcome(p, "success")
                                     ELSE DlOutcome(p, "failed")]
    /\ UNCHANGED <<dp_pc, dp_i, df, requests, results, download_results>>
    /\ OnlyDP

\* process_chunk, line 97: [r for r in results if not isinstance(r, Exception)]
dp_processed_results(gathered) == SelectSeq(gathered, LAMBDA r : ~r.exc)

\* lines 96-97 and 121-128: gather completed; process_chunk returns and main
\* extends results, then sleeps unless this was the last chunk
DP_GatherDone ==
    /\ dp_pc = "gather"
    /\ \A p \in RowsOfChunk(dp_i) : dl[p] = "done"
    /\ results' = results \o
          dp_processed_results([k \in 1..Len(chunk_rows(dp_i)) |->
                                   dl_result[chunk_rows(dp_i)[k]]])
    /\ IF dp_i < total_chunks
          THEN /\ dp_pc' = "sleep"
               /\ UNCHANGED dp_i
          ELSE /\ dp_pc' = "loop"
               /\ dp_i' = dp_i + 1
    /\ UNCHANGED <<df, dl, dl_result, requests, responses, pdf_file,
                   download_results>>
    /\ OnlyDP

\* line 128: the sleep between chunks ends
DP_SleepDone ==
    /\ dp_pc = "sleep"
    /\ dp_i' = dp_i + 1
    /\ dp_pc' = "loop"
    /\ UNCHANGED <<df, dl, dl_result, requests, responses, pdf_file, results,
                   download_results>>
    /\ OnlyDP

\* lines 130-134 and 144-145: the results are written to the CSV file
DP_SaveResults ==
    /\ dp_pc = "loop"
    /\ dp_i > total_chunks
    /\ download_results' = [exists |-> TRUE, rows |-> results]
    /\ dp_pc' = "saved"
    /\ UNCHANGED <<dp_i, df, dl, dl_result, requests, responses, pdf_file, results>>
    /\ OnlyDP

\* lines 138-145: KeyboardInterrupt while asyncio.run(main()) runs: main and
\* its tasks are cancelled, the interruption is logged, nothing is written
DP_KeyboardInterrupt ==
    /\ dp_pc \in {"loop", "gather", "sleep"}
    /\ dp_pc' = "interrupted"
    /\ dl' = [p \in Rows |-> IF dl[p] \in {"none", "done"} THEN dl[p] ELSE "cancelled"]
    /\ UNCHANGED <<dp_i, df, dl_result, requests, responses, pdf_file, results,
                   download_results>>
    /\ OnlyDP

NextDownloadPdfs ==
    \/ DP_ProcessChunk
    \/ \E p \in Rows, ok \in BOOLEAN : DP_Makedirs(p, ok)
    \/ \E p \in Rows : DP_TryPrimary(p)
    \/ \E p \in Rows, r \in Responses : DP_PrimaryResponse(p, r)
    \/ \E p \in Rows : DP_TryBackup(p)
    \/ \E p \in Rows, r \in Responses : DP_BackupResponse(p, r)
    \/ DP_GatherDone
    \/ DP_SleepDone
    \/ DP_SaveResults
    \/ DP_KeyboardInterrupt

----------------------------------------------------------------------------
(***************************************************************************)
(* aws_download.py: download_file and parallel_download. Entry f of the    *)
(* file manifest is f; the executor starts the submitted calls in the      *)
(* order of submission, at most max_workers at a time.                     *)
(***************************************************************************)
Files == 1..NFiles
NoSummary == [logged |-> FALSE, successes |-> 0, failures |-> 0]

ADInit ==
    /\ ad_pc = "start"
    /\ ad_state = [f \in Files |-> "none"]
    /\ ad_attempts = [f \in Files |-> <<>>]
    /\ ad_result = [f \in Files |-> "-"]
    /\ ad_collected = {}
    /\ success_count = 0
    /\ failure_count = 0
    /\ ad_summary = NoSummary

\* lines 117-132: one download_file call is submitted per manifest entry
AD_Submit ==
    /\ ad_pc = "start"
    /\ ad_state' = [f \in Files |-> "queued"]
    /\ ad_pc' = "as_completed"
    /\ UNCHANGED <<ad_attempts, ad_result, ad_collected, success_count,
                   failure_count, ad_summary>>
    /\ OnlyAD

AdRunning == {f \in Files : ad_state[f] \in {"L69", "L74", "L89"}}

\* a worker thread of the executor takes the next queued call
AD_Start(f) ==
    /\ ad_state[f] = "queued"
    /\ \A g \in Files : g < f => ad_state[g] # "queued"
    /\ Cardinality(AdRunning) < max_workers
    /\ ad_state' = [ad_state EXCEPT ![f] = "L69"]
    /\ UNCHANGED <<ad_pc, ad_attempts, ad_result, ad_collected, success_count,
                   failure_count, ad_summary>>
    /\ OnlyAD

\* download_file, line 69: boto3.client is outside the try block; when it
\* raises, the future ends with the exception
AD_Client(f, ok) ==
    /\ ad_state[f] = "L69"
    /\ IF ok
          THEN /\ ad_state' = [ad_state EXCEPT ![f] = "L74"]
               /\ UNCHANGED ad_result
          ELSE /\ ad_state' = [ad_state EXCEPT ![f] = "done"]
               /\ ad_result' = [ad_result EXCEPT ![f] = "exception"]
    /\ UNCHANGED <<ad_pc, ad_attempts, ad_collected, success_count,
                   failure_count, ad_summary>>
    /\ OnlyAD

\* download_file, lines 70-84: the download with the key of the entry;
\* success returns True, an exception leads to the retry
AD_Download(f, ok) ==
    /\ ad_state[f] = "L74"
    /\ ad_attempts' = [ad_attempts EXCEPT ![f] = Append(@, IF ok THEN "ok" ELSE "error")]
    /\ IF ok
          THEN /\ ad_state' = [ad_state EXCEPT ![f] = "done"]
               /\ ad_result' = [ad_result EXCEPT ![f] = "True"]
          ELSE /\ ad_state' = [ad_state EXCEPT ![f] = "L89"]
               /\ UNCHANGED ad_result
    /\ UNCHANGED <<ad_pc, ad_collected, success_count, failure_count, ad_summary>>
    /\ OnlyAD

\* download_file, lines 85-99: what the except branch returns after the
\* download with the amended key: line 99 returns False on both paths
RetryReturn(ok) == "False"

\* download_file, lines 85-99: the download with the amended key "//"
AD_Retry(f, ok) ==
    /\ ad_state[f] = "L89"
    /\ ad_attempts' = [ad_attempts EXCEPT ![f] = Append(@, IF ok THEN "ok" ELSE "error")]
    /\ ad_state' = [ad_state EXCEPT ![f] = "done"]
    /\ ad_result' = [ad_result EXCEPT ![f] = RetryReturn(ok)]
    /\ UNCHANGED <<ad_pc, ad_collected, success_count, failure_count, ad_summary>>
    /\ OnlyAD

\* parallel_download, lines 135-146: as_completed yields a finished future
\* and its result is counted
AD_Collect(f) ==
    /\ ad_pc = "as_completed"
    /\ ad_state[f] = "done"
    /\ f \notin ad_collected
    /\ ad_collected' = ad_collected \cup {f}
    /\ IF ad_result[f] = "True"
          THEN /\ success_count' = success_count + 1
               /\ UNCHANGED failure_count
          ELSE /\ failure_count' = failure_count + 1
               /\ UNCHANGED success_count
    /\ UNCHANGED <<ad_pc, ad_state, ad_attempts, ad_result, ad_summary>>
    /\ OnlyAD

\* parallel_download, lines 148-151: every future was yielded; the summary
\* is logged
AD_Summary ==
    /\ ad_pc = "as_completed"
    /\ ad_collected = Files
    /\ ad_summary' = [logged |-> TRUE, successes |-> success_count,
                      failures |-> failure_count]
    /\ ad_pc' = "returned"
    /\ UNCHANGED <<ad_state, ad_attempts, ad_result, ad_collected,
                   success_count, failure_count>>
    /\ OnlyAD

\* KeyboardInterrupt in the main thread inside the as_completed loop: it is
\* no Exception (line 142) and leaves parallel_download through the with
\* block; lines 148-151 are not reached
AD_KeyboardInterrupt ==
    /\ ad_pc = "as_completed"
    /\ ad_pc' = "interrupted"
    /\ UNCHANGED <<ad_state, ad_attempts, ad_result, ad_collected,
                   success_count, failure_count, ad_summary>>
    /\ OnlyAD

NextAwsDownload ==
    \/ AD_Submit
    \/ \E f \in Files : AD_Start(f)
    \/ \E f \in Files, ok \in BOOLEAN : AD_Client(f, ok)
    \/ \E f \in Files, ok \in BOOLEAN : AD_Download(f, ok)
    \/ \E f \in Files, ok \in BOOLEAN : AD_Retry(f, ok)
    \/ \E f \in Files : AD_Collect(f)
    \/ AD_Summary
    \/ AD_KeyboardInterrupt

----------------------------------------------------------------------------
(***************************************************************************)
(* aws_upload.py: upload_file and parallel_upload. File f of file_list is  *)
(* f; executor.map submits every call at once and yields the results in    *)
(* the order of the list.                                                  *)
(***************************************************************************)
Uploads == 1..NUploads

AUInit ==
    /\ au_pc = "start"
    /\ au_state = [f \in Uploads |-> "none"]
    /\ au_next = 1
    /\ au_results = <<>>
    /\ au_summary = [logged |-> FALSE, successes |-> 0]

\* lines 190-192: executor.map submits upload_file for every file
AU_Submit ==
    /\ au_pc = "start"
    /\ au_state' = [f \in Uploads |-> "queued"]
    /\ au_pc' = "results"
    /\ UNCHANGED <<au_next, au_results, au_summary>>
    /\ OnlyAU

\* a worker thread of the executor takes the next queued call
AU_Start(f) ==
    /\ au_state[f] = "queued"
    /\ \A g \in Uploads : g < f => au_state[g] # "queued"
    /\ Cardinality({g \in Uploads : au_state[g] = "running"}) < num_threads
    /\ au_state' = [au_state EXCEPT ![f] = "running"]
    /\ UNCHANGED <<au_pc, au_next, au_results, au_summary>>
    /\ OnlyAU

\* How the S3 call of upload_file (line 164) ends: it returns ("ok"), raises
\* a ClientError, or raises another exception (a missing local file, a
\* transfer error)
UploadEnds == {"ok", "ClientError", "OtherError"}

\* upload_file, lines 158-170: True, False for a ClientError; another
\* exception is not caught and becomes the exception of the future
upload_file(r) ==
    CASE r = "ok" -> "True"
      [] r = "ClientError" -> "False"
      [] OTHER -> "raised"

AU_Finish(f, r) ==
    /\ au_state[f] = "running"
    /\ au_state' = [au_state EXCEPT ![f] = upload_file(r)]
    /\ UNCHANGED <<au_pc, au_next, au_results, au_summary>>
    /\ OnlyAU

\* lines 191-193: list() takes the next result of executor.map, in the
\* order of file_list
AU_NextResult ==
    /\ au_pc = "results"
    /\ au_next <= NUploads
    /\ au_state[au_next] \in {"True", "False"}
    /\ au_results' = Append(au_results, au_state[au_next] = "True")
    /\ au_next' = au_next + 1
    /\ UNCHANGED <<au_pc, au_state, au_summary>>
    /\ OnlyAU

\* lines 191-193: the next result is an exception: the iterator of
\* executor.map re-raises it and cancels the futures not yet started
AU_ResultRaises ==
    /\ au_pc = "results"
    /\ au_next <= NUploads
    /\ au_state[au_next] = "raised"
    /\ au_state' = [f \in Uploads |->
                      IF au_state[f] = "queued" THEN "cancelled" ELSE au_state[f]]
    /\ au_pc' = "exit"
    /\ UNCHANGED <<au_next, au_results, au_summary>>
    /\ OnlyAU

\* line 190: the with block is left by the exception once the running
\* calls have ended; parallel_upload raises, lines 195-199 are not reached
AU_Raise ==
    /\ au_pc = "exit"
    /\ \A f \in Uploads : au_state[f] # "running"
    /\ au_pc' = "raised"
    /\ UNCHANGED <<au_state, au_next, au_results, au_summary>>
    /\ OnlyAU

\* line 195: success_count = sum(1 for r in results if r)
RECURSIVE CountTrue(_)
CountTrue(rs) ==
    IF rs = <<>> THEN 0
    ELSE (IF Head(rs) THEN 1 ELSE 0) + CountTrue(Tail(rs))

\* lines 195-199: every result was taken; the summary is logged
AU_Summary ==
    /\ au_pc = "results"
    /\ au_next > NUploads
    /\ au_summary' = [logged |-> TRUE, successes |-> CountTrue(au_results)]
    /\ au_pc' = "returned"
    /\ UNCHANGED <<au_state, au_next, au_results>>
    /\ OnlyAU

NextAwsUpload ==
    \/ AU_Submit
    \/ \E f \in Uploads : AU_Start(f)
    \/ \E f \in Uploads, r \in UploadEnds : AU_Finish(f, r)
    \/ AU_NextResult
    \/ AU_ResultRaises
    \/ AU_Raise
    \/ AU_Summary

(***************************************************************************)
(* verify_pdfs.py: process_pdfs_parallel (lines 237-273) starts the writer *)
(* process and a pool of num_processes workers; each worker runs           *)
(* process_pdf (lines 216-234), which puts one result on the queue; the    *)
(* writer (lines 189-213) moves results from the queue to the CSV file.    *)
(* The directory holds NPdfs >= 1 files, so line 245 does not return.      *)
(***************************************************************************)
Pdfs == 1..NPdfs

\* the result process_pdf puts on the queue: the row of extract_hhs_info
\* (line 221) or the row with the "Processing error" (lines 224-233)
PdfResult(f, r) == [name |-> f, error |-> (r = "error")]
NoPdfResult == [name |-> 0, error |-> FALSE]

VPInit ==
    /\ vp_pc = "start"
    /\ vp_work = [f \in Pdfs |-> "pending"]
    /\ queue = <<>>
    /\ done_event = FALSE
    /\ wr_pc = "none"
    /\ wr_result = NoPdfResult
    /\ csv_rows = <<>>
    /\ wr_errors = {}

\* lines 250-260: the manager's queue and event are created, the writer
\* process is started (it opens the file and writes the header, lines
\* 202-204) and the pool is created
VP_StartWriter ==
    /\ vp_pc = "start"
    /\ vp_pc' = "pool"
    /\ wr_pc' = "is_set"
    /\ UNCHANGED <<vp_work, queue, done_event, wr_result, csv_rows, wr_errors>>
    /\ OnlyVP

\* line 264: a free worker of the pool takes the next file of imap_unordered
VP_TakePdf(f) ==
    /\ vp_pc = "pool"
    /\ vp_work[f] = "pending"
    /\ Cardinality({g \in Pdfs : vp_work[g] = "processing"}) < num_processes
    /\ vp_work' = [vp_work EXCEPT ![f] = "processing"]
    /\ UNCHANGED <<vp_pc, queue, done_event, wr_pc, wr_result, csv_rows,
                   wr_errors>>
    /\ OnlyVP

\* process_pdf, lines 219-234: extract_hhs_info returns or raises (r); in
\* both cases one result is put on the queue before process_pdf returns
VP_ProcessPdf(f, r) ==
    /\ vp_work[f] = "processing"
    /\ queue' = Append(queue, PdfResult(f, r))
    /\ vp_work' = [vp_work EXCEPT ![f] = "returned"]
    /\ UNCHANGED <<vp_pc, done_event, wr_pc, wr_result, csv_rows, wr_errors>>
    /\ OnlyVP

\* a finally block that does not set done_event
VP_SetDone_NotSet ==
    /\ vp_pc = "pool"
    /\ \A f \in Pdfs : vp_work[f] = "returned"
    /\ vp_pc' = "join"
    /\ UNCHANGED <<vp_work, queue, done_event, wr_pc, wr_result, csv_rows,
                   wr_errors>>
    /\ OnlyVP

\* lines 262-270: imap_unordered has yielded the result of every file; the
\* pool is left and the finally block sets done_event
VP_SetDone ==
    /\ vp_pc = "pool"
    /\ \A f \in Pdfs : vp_work[f] = "returned"
    /\ done_event' = TRUE
    /\ vp_pc' = "join"
    /\ UNCHANGED <<vp_work, queue, wr_pc, wr_result, csv_rows, wr_errors>>
    /\ OnlyVP

\* lines 262-264 and 269-270: the pool block raises (the Pool cannot be
\* created, or imap_unordered re-raises what a task raised): leaving the with
\* block terminates the workers, and the finally block sets done_event
VP_PoolFails ==
    /\ vp_pc = "pool"
    /\ \E f \in Pdfs : vp_work[f] # "returned"
    /\ vp_work' = [f \in Pdfs |-> IF vp_work[f] = "returned" THEN "returned"
                                                            ELSE "terminated"]
    /\ done_event' = TRUE
    /\ vp_pc' = "join_exc"
    /\ UNCHANGED <<queue, wr_pc, wr_result, csv_rows, wr_errors>>
    /\ OnlyVP

\* lines 271-273: writer_proc.join() returns once the writer has exited; the
\* function returns, or the exception of the pool block propagates
VP_Join ==
    /\ vp_pc \in {"join", "join_exc"}
    /\ wr_pc = "exited"
    /\ vp_pc' = IF vp_pc = "join" THEN "returned" ELSE "raised"
    /\ UNCHANGED <<vp_work, queue, done_event, wr_pc, wr_result, csv_rows,
                   wr_errors>>
    /\ OnlyVP

\* line 206, left operand: done_event.is_set(); when it is false the loop
\* body is entered without looking at the queue
WR_IsSet ==
    /\ wr_pc = "is_set"
    /\ wr_pc' = IF done_event THEN "empty" ELSE "get"
    /\ UNCHANGED <<vp_pc, vp_work, queue, done_event, wr_result, csv_rows,
                   wr_errors>>
    /\ OnlyVP

\* line 206, right operand: queue.empty(); the loop ends when it is true
WR_Empty ==
    /\ wr_pc = "empty"
    /\ wr_pc' = IF queue = <<>> THEN "exited" ELSE "get"
    /\ UNCHANGED <<vp_pc, vp_work, queue, done_event, wr_result, csv_rows,
                   wr_errors>>
    /\ OnlyVP

\* lines 208 and 210-211: queue.get(timeout=1) returns the oldest result, or
\* raises Empty after the timeout and the loop continues
WR_Get ==
    /\ wr_pc = "get"
    /\ IF queue # <<>>
          THEN /\ wr_result' = Head(queue)
               /\ queue' = Tail(queue)
               /\ wr_pc' = "writerow"
          ELSE /\ wr_pc' = "is_set"
               /\ UNCHANGED <<wr_result, queue>>
    /\ UNCHANGED <<vp_pc, vp_work, done_event, csv_rows, wr_errors>>
    /\ OnlyVP

\* lines 209 and 212-213: writer.writerow(result) writes the row, or raises:
\* the exception is printed and the loop continues with the next result
WR_WriteRow(ok) ==
    /\ wr_pc = "writerow"
    /\ IF ok THEN /\ csv_rows' = Append(csv_rows, wr_result)
                  /\ UNCHANGED wr_errors
             ELSE /\ wr_errors' = wr_errors \cup {wr_result}
                  /\ UNCHANGED csv_rows
    /\ wr_pc' = "is_set"
    /\ UNCHANGED <<vp_pc, vp_work, queue, done_event, wr_result>>
    /\ OnlyVP

NextVerifyPdfs ==
    \/ VP_StartWriter
    \/ \E f \in Pdfs : VP_TakePdf(f)
    \/ \E f \in Pdfs, r \in {"row", "error"} : VP_ProcessPdf(f, r)
    \/ VP_SetDone
    \/ VP_PoolFails
    \/ VP_Join
    \/ WR_IsSet
    \/ WR_Empty
    \/ WR_Get
    \/ WR_WriteRow(TRUE)
    \/ WR_WriteRow(FALSE)

(***************************************************************************)
(* Manifests: s3_csv_inventory.py (parse_csv_pmids, get_s3_pmids,          *)
(* analyze_pmids), aws_upload.py (parse_csv_inventory, get_s3_inventory,   *)
(* filter_upload_list) and aws_download.py (read_pmid_locations).          *)
(* A text is a sequence of characters.  A file name is a Path, given by    *)
(* its stem and its suffix; directories are left out, so a Path is its     *)
(* own .name.                                                              *)
(***************************************************************************)
DigitChars == {"0", "1", "2"}

DigitValue(c) == CASE c = "0" -> 0 [] c = "1" -> 1 [] c = "2" -> 2

\* int(text) raises ValueError unless the text is a decimal literal
IsIntLiteral(text) ==
    /\ Len(text) > 0
    /\ \A k \in 1..Len(text) : text[k] \in DigitChars

\* int(text) for a decimal literal: leading zeros do not count
RECURSIVE int(_)
int(text) ==
    IF text = <<>>
       THEN 0
       ELSE 10 * int(SubSeq(text, 1, Len(text) - 1)) + DigitValue(text[Len(text)])

\* the texts of the PMID cells: "1", "01", "2", "10" and "x"
Texts == {<<"1">>, <<"0", "1">>, <<"2">>, <<"1", "0">>, <<"x">>}

Path(stem, suffix) == [stem |-> stem, suffix |-> suffix]

\* the file names of the CSV inventory and of the objects of the bucket
FileNames ==
    {Path(<<"1">>, ".pdf"), Path(<<"0", "1">>, ".pdf"), Path(<<"1">>, ".PDF"),
     Path(<<"1", "0">>, ".pdf"), Path(<<"x">>, ".txt")}

\* what list_objects_v2 may return: at most MaxObjects of these names
Listings == {S \in SUBSET FileNames : Cardinality(S) <= MaxObjects}

\* str.lower() of a suffix
lower(suffix) == IF suffix = ".PDF" THEN ".pdf" ELSE suffix

\* the sequences over S of at most n elements
SeqUpTo(S, n) == UNION {[1..m -> S] : m \in 0..n}

\* ---- s3_csv_inventory.py ----

\* line 48
start_row(h) == IF h THEN 2 ELSE 1

\* parse_csv_pmids, lines 50-61: the body of the loop for row number i with
\* the PMID cell `cell`; st holds pmids, seen_pmids and the log
parse_csv_pmids_LastWins(st, i, cell) ==
    IF ~IsIntLiteral(cell)
       THEN [st EXCEPT !.log = Append(@, [level |-> "error",
                                          msg |-> "Invalid PMID format",
                                          row |-> i, text |-> cell])]
       ELSE LET pmid == int(cell) IN
            IF pmid \in st.pmids
               THEN [st EXCEPT !.seen_pmids = (pmid :> i) @@ @,
                               !.log = Append(@, [level |-> "warning",
                                                  msg |-> "Duplicate PMID",
                                                  pmid |-> pmid, row |-> i,
                                                  first |-> st.seen_pmids[pmid]])]
               ELSE [st EXCEPT !.pmids = @ \cup {pmid},
                               !.seen_pmids = (pmid :> i) @@ @]
parse_csv_pmids_row(st, i, cell) ==
    IF ~IsIntLiteral(cell)
       THEN [st EXCEPT !.log = Append(@, [level |-> "error",
                                          msg |-> "Invalid PMID format",
                                          row |-> i, text |-> cell])]
       ELSE LET pmid == int(cell) IN
            IF pmid \in st.pmids
               THEN [st EXCEPT !.log = Append(@, [level |-> "warning",
                                                  msg |-> "Duplicate PMID",
                                                  pmid |-> pmid, row |-> i,
                                                  first |-> st.seen_pmids[pmid]])]
               ELSE [st EXCEPT !.pmids = @ \cup {pmid},
                               !.seen_pmids = (pmid :> i) @@ @]

\* parse_csv_pmids, lines 41-63: the loop over the first n rows
RECURSIVE parse_csv_pmids_loop(_, _, _)
parse_csv_pmids_loop(rows, h, n) ==
    IF n = 0
       THEN [pmids |-> {}, seen_pmids |-> <<>>, log |-> <<>>]
       ELSE parse_csv_pmids_row(parse_csv_pmids_loop(rows, h, n - 1),
                                start_row(h) + n - 1, rows[n])

parse_csv_pmids(rows, h) == parse_csv_pmids_loop(rows, h, Len(rows))

\* get_s3_pmids, lines 89-106: the stems that are integers; the others are
\* logged (the pages list the keys in ascending order; the log is kept as
\* the set of the names it reports)
get_s3_pmids(objects) ==
    [pmids |-> {int(o.stem) : o \in {n \in objects : IsIntLiteral(n.stem)}},
     log |-> {n \in objects : ~IsIntLiteral(n.stem)}]

\* sorted(list(S)) of a set of integers
RECURSIVE sorted(_)
sorted(S) ==
    IF S = {}
       THEN <<>>
       ELSE LET least == CHOOSE x \in S : \A y \in S : x <= y
            IN  <<least>> \o sorted(S \ {least})

\* analyze_pmids, lines 125-137
analyze_pmids_Swapped(csv, s3) ==
    LET common_pmids == csv \cap s3
        missing_pmids == s3 \ csv
        extra_pmids == s3 \ csv
    IN  [csv_unique |-> Cardinality(csv),
         s3_unique |-> Cardinality(s3),
         common |-> Cardinality(common_pmids),
         missing |-> Cardinality(missing_pmids),
         extra |-> Cardinality(extra_pmids),
         missing_pmids |-> sorted(missing_pmids),
         extra_pmids |-> sorted(extra_pmids)]
analyze_pmids(csv, s3) ==
    LET common_pmids == csv \cap s3
        missing_pmids == csv \ s3
        extra_pmids == s3 \ csv
    IN  [csv_unique |-> Cardinality(csv),
         s3_unique |-> Cardinality(s3),
         common |-> Cardinality(common_pmids),
         missing |-> Cardinality(missing_pmids),
         extra |-> Cardinality(extra_pmids),
         missing_pmids |-> sorted(missing_pmids),
         extra_pmids |-> sorted(extra_pmids)]

\* ---- aws_upload.py ----

\* parse_csv_inventory, lines 49-65: the body of the loop for the row whose
\* name cell is pdf_path; st holds upload_list, processed_accessions and
\* the log
parse_csv_inventory_row(st, pdf_path) ==
    IF ~IsIntLiteral(pdf_path.stem)
       THEN [st EXCEPT !.log = Append(@, [level |-> "error",
                                          msg |-> "Invalid accession number format",
                                          text |-> pdf_path.stem])]
       ELSE LET accession_num == int(pdf_path.stem) IN
            IF accession_num \in st.processed_accessions
               THEN [st EXCEPT !.log = Append(@, [level |-> "warning",
                                                  msg |-> "Duplicate accession number found",
                                                  accession_num |-> accession_num,
                                                  pdf_path |-> pdf_path])]
               ELSE [st EXCEPT !.processed_accessions = @ \cup {accession_num},
                               !.upload_list = Append(@, pdf_path)]

\* parse_csv_inventory, lines 42-71: the loop over the first n rows
RECURSIVE parse_csv_inventory_loop(_, _)
parse_csv_inventory_loop(rows, n) ==
    IF n = 0
       THEN [upload_list |-> <<>>, processed_accessions |-> {}, log |-> <<>>]
       ELSE parse_csv_inventory_row(parse_csv_inventory_loop(rows, n - 1),
                                    rows[n])

parse_csv_inventory(rows) == parse_csv_inventory_loop(rows, Len(rows))

\* get_s3_inventory, lines 97-106: the names of the objects whose key ends
\* with ".pdf" in lower case
get_s3_inventory(objects) == {n \in objects : lower(n.suffix) = ".pdf"}

\* filter_upload_list, lines 131-139: a new list of the paths whose name is
\* not in the inventory
filter_upload_list_FirstOnly(list, inventory) ==
    LET hits == {k \in 1..Len(list) : list[k] \in inventory} IN
    IF hits = {}
       THEN list
       ELSE LET h == CHOOSE k \in hits : \A j \in hits : k <= j
            IN  SubSeq(list, 1, h - 1) \o SubSeq(list, h + 1, Len(list))
filter_upload_list(list, inventory) ==
    SelectSeq(list, LAMBDA path : path \notin inventory)

\* ---- aws_download.py ----

\* parse_s3_uri (lines 20-23) of the S3 URIs of found_pmids.txt,
\* "s3://osm/pdfs/1.pdf" and "s3://osm2/pdfs/2.pdf": the netloc, and the
\* path without its leading slash
parse_s3_uri(s3_uri) ==
    IF s3_uri = "s3://osm/pdfs/1.pdf"
       THEN [bucket |-> "osm", key |-> "pdfs/1.pdf"]
       ELSE [bucket |-> "osm2", key |-> "pdfs/2.pdf"]

\* a line of found_pmids.txt, as line.strip().split(",") (line 42): the
\* fields of the line; a blank line has none
Lines ==
    {<<>>, <<<<"1">>>>, <<<<"1">>, "s3://osm/pdfs/1.pdf">>,
     <<<<"x">>, "s3://osm/pdfs/1.pdf">>,
     <<<<"1", "2", "0">>, "s3://osm/pdfs/1.pdf">>,
     <<<<"2">>, "s3://osm/pdfs/1.pdf", "s3://osm/pdfs/1.pdf">>}

\* read_pmid_locations, lines 39-54: the body of the loop for one line
read_pmid_locations_line(st, fields) ==
    IF fields = <<>>
       THEN st
       ELSE IF Len(fields) # 2
               THEN [st EXCEPT !.log = Append(@, [level |-> "warning",
                                                  msg |-> "Skipping malformed line",
                                                  line |-> fields])]
               ELSE LET pmid == fields[1]
                        key == parse_s3_uri(fields[2]).key
                        subdir == IF Len(pmid) >= 3 THEN SubSeq(pmid, 1, 3)
                                                    ELSE <<"o", "t", "h", "e", "r">>
                    IN  [st EXCEPT !.file_manifest =
                            Append(@, [s3_key |-> key,
                                       local_name |-> [subdir |-> subdir,
                                                       name |-> Path(pmid, ".pdf")],
                                       pmid |-> pmid])]

\* read_pmid_locations, lines 36-55: the loop over the lines lo..hi. The body
\* only appends to file_manifest and to the log, so the result for a range
\* of lines is the result for its first half followed by the result for its
\* second half
RECURSIVE read_pmid_locations_loop(_, _, _)
read_pmid_locations_loop(lines, lo, hi) ==
    IF lo > hi
       THEN [file_manifest |-> <<>>, log |-> <<>>]
       ELSE IF lo = hi
               THEN read_pmid_locations_line([file_manifest |-> <<>>, log |-> <<>>],
                                             lines[lo])
               ELSE LET mid == (lo + hi) \div 2
                        first == read_pmid_locations_loop(lines, lo, mid)
                        second == read_pmid_locations_loop(lines, mid + 1, hi)
                    IN  [file_manifest |-> first.file_manifest \o second.file_manifest,
                         log |-> first.log \o second.log]

read_pmid_locations(lines) == read_pmid_locations_loop(lines, 1, Len(lines))

\* ---- the runs of the three scripts ----

RCInit ==
    /\ rc_script = "none"
    /\ rc_pc = "start"
    /\ rc_log = <<>>
    /\ s3_objects = {}
    /\ pmid_csv = <<>>
    /\ has_header = FALSE
    /\ csv_pmids = {}
    /\ seen_pmids = <<>>
    /\ s3_pmids = {}
    /\ analysis = <<>>
    /\ inventory_csv = <<>>
    /\ upload_list = <<>>
    /\ processed_accessions = {}
    /\ s3_inventory = {}
    /\ filtered_list = <<>>
    /\ found_pmids = <<>>
    /\ file_manifest = <<>>

\* a set as a list, in the order in which the listing yields it (any order)
SetToSeq(S) == CHOOSE f \in [1..Cardinality(S) -> S] : {f[k] : k \in DOMAIN f} = S

\* s3_csv_inventory.main, lines 224-225: the CSV file is read and parsed
SI_ParseCsv(rows, h) ==
    /\ rc_script = "none"
    /\ rc_script' = "s3_csv_inventory"
    /\ pmid_csv' = rows
    /\ has_header' = h
    /\ LET parsed == parse_csv_pmids(rows, h)
       IN  /\ csv_pmids' = parsed.pmids
           /\ seen_pmids' = parsed.seen_pmids
           /\ rc_log' = parsed.log
    /\ rc_pc' = "parsed"
    /\ UNCHANGED <<s3_objects, s3_pmids, analysis, inventory_csv, upload_list,
                   processed_accessions, s3_inventory, filtered_list,
                   found_pmids, file_manifest>>
    /\ OnlyRC

\* s3_csv_inventory.main, lines 227-228: the bucket is listed
SI_GetS3(objects) ==
    /\ rc_script = "s3_csv_inventory"
    /\ rc_pc = "parsed"
    /\ s3_objects' = objects
    /\ LET listed == get_s3_pmids(objects)
           warned == SetToSeq(listed.log)
       IN  /\ s3_pmids' = listed.pmids
           /\ rc_log' = rc_log \o
                 [k \in 1..Len(warned) |->
                     [level |-> "warning",
                      msg |-> "Could not parse PMID from filename",
                      text |-> warned[k].stem]]
    /\ rc_pc' = "listed"
    /\ UNCHANGED <<rc_script, pmid_csv, has_header, csv_pmids, seen_pmids,
                   analysis, inventory_csv, upload_list, processed_accessions,
                   s3_inventory, filtered_list, found_pmids, file_manifest>>
    /\ OnlyRC

\* s3_csv_inventory.main, lines 230-231: analyze_pmids is called with the
\* two sets; it builds new sets and lists and leaves its arguments as they
\* are (lines 125-136)
SI_Analyze ==
    /\ rc_script = "s3_csv_inventory"
    /\ rc_pc = "listed"
    /\ Len(analysis) < MaxRuns
    /\ analysis' = Append(analysis, analyze_pmids(csv_pmids, s3_pmids))
    /\ UNCHANGED <<rc_script, rc_pc, rc_log, s3_objects, pmid_csv, has_header,
                   csv_pmids, seen_pmids, s3_pmids, inventory_csv,
                   upload_list, processed_accessions, s3_inventory,
                   filtered_list, found_pmids, file_manifest>>
    /\ OnlyRC

\* aws_upload.main, lines 229-230: the CSV inventory is read and parsed
UP_ParseCsv(rows) ==
    /\ rc_script = "none"
    /\ rc_script' = "aws_upload"
    /\ inventory_csv' = rows
    /\ LET parsed == parse_csv_inventory(rows)
       IN  /\ upload_list' = parsed.upload_list
           /\ processed_accessions' = parsed.processed_accessions
           /\ rc_log' = parsed.log
    /\ rc_pc' = "parsed"
    /\ UNCHANGED <<s3_objects, pmid_csv, has_header, csv_pmids, seen_pmids,
                   s3_pmids, analysis, s3_inventory, filtered_list,
                   found_pmids, file_manifest>>
    /\ OnlyRC

\* aws_upload.main, lines 234-235: the bucket is listed
UP_GetS3(objects) ==
    /\ rc_script = "aws_upload"
    /\ rc_pc = "parsed"
    /\ s3_objects' = objects
    /\ s3_inventory' = get_s3_inventory(objects)
    /\ rc_pc' = "listed"
    /\ UNCHANGED <<rc_script, rc_log, pmid_csv, has_header, csv_pmids,
                   seen_pmids, s3_pmids, analysis, inventory_csv, upload_list,
                   processed_accessions, filtered_list, found_pmids,
                   file_manifest>>
    /\ OnlyRC

\* aws_upload.main, lines 238-239: filter_upload_list is called with the
\* upload list (line 239: its result is what parallel_upload is given, line
\* 247); a further call is given the result of the call before it.  The
\* function builds a new list and leaves its arguments as they are (lines
\* 131-133)
UP_Filter ==
    /\ rc_script = "aws_upload"
    /\ rc_pc = "listed"
    /\ Len(filtered_list) < MaxRuns
    /\ filtered_list' =
          Append(filtered_list,
                 filter_upload_list(IF filtered_list = <<>>
                                       THEN upload_list
                                       ELSE filtered_list[Len(filtered_list)],
                                    s3_inventory))
    /\ UNCHANGED <<rc_script, rc_pc, rc_log, s3_objects, pmid_csv, has_header,
                   csv_pmids, seen_pmids, s3_pmids, analysis, inventory_csv,
                   upload_list, processed_accessions, s3_inventory,
                   found_pmids, file_manifest>>
    /\ OnlyRC

\* aws_download, lines 172-173: found_pmids.txt is read
RD_ReadPmidLocations(lines) ==
    /\ rc_script = "none"
    /\ rc_script' = "aws_download"
    /\ found_pmids' = lines
    /\ LET read == read_pmid_locations(lines)
       IN  /\ file_manifest' = read.file_manifest
           /\ rc_log' = read.log
    /\ rc_pc' = "read"
    /\ UNCHANGED <<s3_objects, pmid_csv, has_header, csv_pmids, seen_pmids,
                   s3_pmids, analysis, inventory_csv, upload_list,
                   processed_accessions, s3_inventory, filtered_list>>
    /\ OnlyRC

NextReconcile ==
    \/ \E rows \in SeqUpTo(Texts, MaxCsvRows), h \in BOOLEAN :
          SI_ParseCsv(rows, h)
    \/ \E objects \in Listings : SI_GetS3(objects)
    \/ SI_Analyze
    \/ \E rows \in SeqUpTo(FileNames, MaxCsvRows) : UP_ParseCsv(rows)
    \/ \E objects \in Listings : UP_GetS3(objects)
    \/ UP_Filter
    \/ \E lines \in SeqUpTo(Lines, MaxLines) : RD_ReadPmidLocations(lines)

----------------------------------------------------------------------------
(***************************************************************************)
(* aws_download.py: get_optimal_worker_count. The number of CPUs is what   *)
(* multiprocessing.cpu_count() returns on the machine of the run.          *)
(***************************************************************************)
MaxCpus == 64
CpuCounts == 1..MaxCpus

\* the builtins min and max of two integers
min(a, b) == IF b < a THEN b ELSE a
max(a, b) == IF b > a THEN b ELSE a

\* a worker count that is not capped
get_optimal_worker_count_NoCap(n) == max(n * 2, 4)

\* line 162: min(max(cpu_count * 2, 4), 32)
get_optimal_worker_count(n) == min(max(n * 2, 4), 32)

WCInit ==
    /\ wc_pc = "start"
    /\ cpu_count = 0
    /\ worker_count = 0

\* line 160: cpu_count = multiprocessing.cpu_count()
WC_CpuCount(n) ==
    /\ wc_pc = "start"
    /\ cpu_count' = n
    /\ wc_pc' = "L162"
    /\ UNCHANGED worker_count
    /\ OnlyWC

\* lines 162-163: the worker count is computed and returned
WC_Return ==
    /\ wc_pc = "L162"
    /\ worker_count' = get_optimal_worker_count(cpu_count)
    /\ wc_pc' = "returned"
    /\ UNCHANGED cpu_count
    /\ OnlyWC

NextWorkerCount ==
    \/ \E n \in CpuCounts : WC_CpuCount(n)
    \/ WC_Return

----------------------------------------------------------------------------
(***************************************************************************)
(* rename_and_upload.py: rename_and_upload_pdfs. The script is called      *)
(* NCalls times on the same CSV file and the same local files, each time   *)
(* with or without --dry-run.                                              *)
(***************************************************************************)
NCalls == 2
NCsvRows == 2

\* the PMID cell of a row as pandas reads it, and whether the file at
\* "Actual File Path" exists
PmidCells == {"7", "7.0", "nan"}
CsvRow == [PMID : PmidCells, exists : BOOLEAN]
CsvFiles ==
    [drawn : {TRUE}, readable : BOOLEAN,
     rows : UNION {[1..n -> CsvRow] : n \in 0..NCsvRows}]
NotDrawn == [drawn |-> FALSE, readable |-> FALSE, rows |-> <<>>]

\* line 50: str(int(row["PMID"])); int raises ValueError for NaN
int_raises(cell) == cell = "nan"
str_int(cell) == IF cell \in {"7", "7.0"} THEN "7" ELSE "-"

\* lines 58-59 with the prefix "pdfs" of the default s3_uri
ru_s3_key(pmid) == <<"pdfs/", pmid, ".pdf">>

NewRun(d) ==
    [dry_run |-> d, client |-> FALSE, would |-> {}, uploads |-> {},
     end |-> "running"]

RUInit ==
    /\ ru_pc = "idle"
    /\ ru_csv = NotDrawn
    /\ ru_i = 0
    /\ ru_runs = <<>>

this_run == ru_runs[Len(ru_runs)]

RunWith(field, value) ==
    [ru_runs EXCEPT ![Len(ru_runs)] = [@ EXCEPT ![field] = value]]

\* lines 26-33: a call begins; the first call finds the CSV file and the
\* local files as they are
RU_Call(d, csv) ==
    /\ ru_pc \in {"idle", "returned", "raised"}
    /\ Len(ru_runs) < NCalls
    /\ ru_csv' = IF ru_csv.drawn THEN ru_csv ELSE csv
    /\ ru_runs' = Append(ru_runs, NewRun(d))
    /\ ru_pc' = "L36"
    /\ ru_i' = 0
    /\ OnlyRU

\* lines 36-37: the S3 client is created unless this is a dry run;
\* boto3.client is outside every try block
RU_Client(ok) ==
    /\ ru_pc = "L36"
    /\ IF this_run.dry_run
          THEN /\ ru_pc' = "L41"
               /\ UNCHANGED ru_runs
          ELSE IF ok
                  THEN /\ ru_pc' = "L41"
                       /\ ru_runs' = RunWith("client", TRUE)
                  ELSE /\ ru_pc' = "raised"
                       /\ ru_runs' = RunWith("end", "raised")
    /\ UNCHANGED <<ru_csv, ru_i>>
    /\ OnlyRU

\* lines 40-44: the CSV file is read; a failure is logged and ends the call
RU_ReadCsv ==
    /\ ru_pc = "L41"
    /\ IF ru_csv.readable
          THEN /\ ru_pc' = "loop"
               /\ ru_i' = 1
               /\ UNCHANGED ru_runs
          ELSE /\ ru_pc' = "returned"
               /\ ru_runs' = RunWith("end", "returned")
               /\ UNCHANGED ru_i
    /\ UNCHANGED ru_csv
    /\ OnlyRU

\* a loop body that uploads in a real run without looking for the source file
RU_Row_NoExistsCheck ==
    /\ ru_pc = "loop"
    /\ ru_i <= Len(ru_csv.rows)
    /\ LET row == ru_csv.rows[ru_i]
           entry == [row |-> ru_i, s3_key |-> ru_s3_key(str_int(row.PMID))]
       IN  ru_runs' =
              IF int_raises(row.PMID)
                 THEN ru_runs
                 ELSE IF this_run.dry_run
                         THEN IF row.exists
                                 THEN RunWith("would", this_run.would \cup {entry})
                                 ELSE ru_runs
                         ELSE RunWith("uploads", this_run.uploads \cup {entry})
    /\ ru_i' = ru_i + 1
    /\ UNCHANGED <<ru_pc, ru_csv>>
    /\ OnlyRU

\* lines 47-85: one row of df. A PMID that int rejects is logged (line 84),
\* a missing source file is logged (line 63); otherwise the row is reported
\* (line 68) or uploaded (line 78); a failed upload is logged (line 81) and
\* the loop goes on
RU_Row ==
    /\ ru_pc = "loop"
    /\ ru_i <= Len(ru_csv.rows)
    /\ LET row == ru_csv.rows[ru_i]
           entry == [row |-> ru_i, s3_key |-> ru_s3_key(str_int(row.PMID))]
       IN  ru_runs' =
              IF int_raises(row.PMID) \/ ~row.exists
                 THEN ru_runs
                 ELSE IF this_run.dry_run
                         THEN RunWith("would", this_run.would \cup {entry})
                         ELSE RunWith("uploads", this_run.uploads \cup {entry})
    /\ ru_i' = ru_i + 1
    /\ UNCHANGED <<ru_pc, ru_csv>>
    /\ OnlyRU

\* line 47: df.iterrows() is exhausted and the call returns
RU_Return ==
    /\ ru_pc = "loop"
    /\ ru_i > Len(ru_csv.rows)
    /\ ru_pc' = "returned"
    /\ ru_runs' = RunWith("end", "returned")
    /\ UNCHANGED <<ru_csv, ru_i>>
    /\ OnlyRU

NextRenameAndUpload ==
    \/ \E d \in BOOLEAN, csv \in CsvFiles : RU_Call(d, csv)
    \/ \E ok \in BOOLEAN : RU_Client(ok)
    \/ RU_ReadCsv
    \/ RU_Row
    \/ RU_Return

----------------------------------------------------------------------------
(***************************************************************************)
(* metapub_download.py: the three timeouts around one lookup. Time is in   *)
(* seconds; a timeout expires at its deadline or later, never before. The  *)
(* sleep of the rate limiter (at most DELAY) is not counted.               *)
(***************************************************************************)
MaxClock == 31

\* find_with_timeout, line 31: timeout: int = 10
attempt_timeout == 10
\* get_urls, line 71: timeout=2
item_timeout == 2
\* gather_urls, line 175: timeout=30
chunk_timeout == 30

NotStarted == 0 - 1

LKInit ==
    /\ lk_clock = 0
    /\ lk_chunk = "none"
    /\ lk_item = [state |-> "none", Reason |-> "-"]
    /\ lk_work = "none"
    /\ lk_started = NotStarted
    /\ lk_findit = "none"
    /\ lk_ret = "-"
    /\ lk_fired = <<>>

\* time passes while the chunk is awaited
LK_Tick ==
    /\ lk_chunk = "awaiting" \/ lk_findit = "running"
    /\ lk_clock < MaxClock
    /\ lk_clock' = lk_clock + 1
    /\ UNCHANGED <<lk_chunk, lk_item, lk_work, lk_started, lk_findit, lk_ret,
                   lk_fired>>
    /\ OnlyLK

\* gather_urls, lines 170-176, and get_urls, lines 67-72: the task is awaited
\* under the chunk timeout, and it awaits find_with_timeout in the default
\* executor under the item timeout
LK_Dispatch ==
    /\ lk_chunk = "none"
    /\ lk_chunk' = "awaiting"
    /\ lk_item' = [state |-> "awaiting", Reason |-> "-"]
    /\ lk_work' = "queued"
    /\ UNCHANGED <<lk_clock, lk_started, lk_findit, lk_ret, lk_fired>>
    /\ OnlyLK

\* find_with_timeout, lines 43-47: a thread of the default executor runs
\* the call, which submits FindIt to its own executor and waits for the
\* result
LK_ThreadStart ==
    /\ lk_work = "queued"
    /\ lk_work' = "L47"
    /\ lk_findit' = "running"
    /\ lk_started' = lk_clock
    /\ UNCHANGED <<lk_clock, lk_chunk, lk_item, lk_ret, lk_fired>>
    /\ OnlyLK

\* FindIt returns or raises in the thread of the inner executor
LK_FindItEnds(r) ==
    /\ lk_findit = "running"
    /\ lk_findit' = r
    /\ UNCHANGED <<lk_clock, lk_chunk, lk_item, lk_work, lk_started, lk_ret,
                   lk_fired>>
    /\ OnlyLK

\* lines 47-49 and 56-61: future.result returns the article or raises what
\* FindIt raised; the return statement leaves the with block
LK_Result ==
    /\ lk_work = "L47"
    /\ lk_findit \in {"returned", "raised"}
    /\ lk_ret' = IF lk_findit = "returned" THEN "article" ELSE "None"
    /\ lk_work' = "exit"
    /\ UNCHANGED <<lk_clock, lk_chunk, lk_item, lk_started, lk_findit, lk_fired>>
    /\ OnlyLK

\* lines 50-55: future.result times out; future.cancel() does not stop the
\* running call; the return statement leaves the with block
LK_AttemptTimeout ==
    /\ lk_work = "L47"
    /\ lk_findit = "running"
    /\ lk_clock >= lk_started + attempt_timeout
    /\ lk_ret' = "None"
    /\ lk_work' = "exit"
    /\ lk_fired' = Append(lk_fired, "attempt")
    /\ UNCHANGED <<lk_clock, lk_chunk, lk_item, lk_started, lk_findit>>
    /\ OnlyLK

\* the Reason of the dict get_urls returns for what find_with_timeout
\* returned (lines 74-84 and 86-124)
LookupReason(ret) ==
    IF ret = "None" THEN "Timeout or error in FindIt" ELSE "article"

\* line 44: the exit of the with block is executor.shutdown(wait=True), which
\* returns when the thread that runs FindIt has finished; then
\* find_with_timeout returns and a get_urls still awaiting it resumes
LK_Exit ==
    /\ lk_work = "exit"
    /\ lk_findit \in {"returned", "raised"}
    /\ lk_work' = "returned"
    /\ lk_item' = IF lk_item.state = "awaiting"
                     THEN [state |-> "done", Reason |-> LookupReason(lk_ret)]
                     ELSE lk_item
    /\ UNCHANGED <<lk_clock, lk_chunk, lk_started, lk_findit, lk_ret, lk_fired>>
    /\ OnlyLK

\* get_urls, lines 71 and 125-136: the wait_for of the item times out; a
\* call still queued is cancelled, a running one goes on
LK_ItemTimeout ==
    /\ lk_item.state = "awaiting"
    /\ lk_clock >= item_timeout
    /\ lk_item' = [state |-> "done", Reason |-> "Timeout"]
    /\ lk_work' = CancelWork(lk_work)
    /\ lk_fired' = Append(lk_fired, "item")
    /\ UNCHANGED <<lk_clock, lk_chunk, lk_started, lk_findit, lk_ret>>
    /\ OnlyLK

\* gather_urls, lines 177-193: the gather completed
LK_GatherDone ==
    /\ lk_chunk = "awaiting"
    /\ lk_item.state = "done"
    /\ lk_chunk' = "done"
    /\ UNCHANGED <<lk_clock, lk_item, lk_work, lk_started, lk_findit, lk_ret,
                   lk_fired>>
    /\ OnlyLK

\* gather_urls, lines 175 and 194-198: the wait_for of the chunk times out
\* and cancels the task
LK_ChunkTimeout ==
    /\ lk_chunk = "awaiting"
    /\ lk_item.state = "awaiting"
    /\ lk_clock >= chunk_timeout
    /\ lk_chunk' = "timed_out"
    /\ lk_item' = [state |-> "cancelled", Reason |-> "-"]
    /\ lk_work' = CancelWork(lk_work)
    /\ lk_fired' = Append(lk_fired, "chunk")
    /\ UNCHANGED <<lk_clock, lk_started, lk_findit, lk_ret>>
    /\ OnlyLK

NextLookup ==
    \/ LK_Tick
    \/ LK_Dispatch
    \/ LK_ThreadStart
    \/ \E r \in {"returned", "raised"} : LK_FindItEnds(r)
    \/ LK_Result
    \/ LK_AttemptTimeout
    \/ LK_Exit
    \/ LK_ItemTimeout
    \/ LK_GatherDone
    \/ LK_ChunkTimeout

----------------------------------------------------------------------------
(***************************************************************************)
(* find_pmids_in_s3.py. A key is the sequence of its components between    *)
(* the slashes: pdfs//1.pdf is <<"pdfs", "", "1.pdf">>.                    *)
(***************************************************************************)
MaxPmid == 3
MaxKeys == 3
BUCKET_NAME == "osm-pdf-uploads"

FpPmids == 1..MaxPmid

\* the f-string of line 83: f"{pmid}.pdf"
pdf_filename(pmid) ==
    CASE pmid = 1 -> "1.pdf"
      [] pmid = 2 -> "2.pdf"
      [] pmid = 3 -> "3.pdf"
      [] OTHER -> "4.pdf"

\* keys under the prefix "pdfs/": flat, with a doubled slash, in a nested
\* directory, and objects that are no .pdf
FpKeys ==
    {<<"pdfs", "1.pdf">>, <<"pdfs", "", "1.pdf">>, <<"pdfs", "a", "2.pdf">>,
     <<"pdfs", "2.pdf">>, <<"pdfs", "3.txt">>, <<"pdfs", "b", "3.PDF">>}
FpListings == {L \in SUBSET FpKeys : Cardinality(L) <= MaxKeys}

\* line 60: Path(obj["Key"]).name, the last component of the key
PathName(key) == key[Len(key)]

\* line 61: filename.endswith(".pdf")
endswith_pdf(filename) == filename \in {pdf_filename(p) : p \in 1..(MaxPmid + 1)}

\* get_existing_pdfs, lines 51-63
get_existing_pdfs(listing) ==
    {PathName(key) : key \in {k \in listing : endswith_pdf(PathName(k))}}

NotFound(pmid) ==
    [pmid |-> pmid, found |-> FALSE, s3_key |-> <<>>, s3_uri |-> <<>>]

\* check_single_pmid, lines 83-88
check_single_pmid(pmid, existing, bucket) ==
    LET filename == pdf_filename(pmid)
        s3_key == <<"pdfs", filename>>
    IN  IF filename \in existing
           THEN [pmid |-> pmid, found |-> TRUE, s3_key |-> s3_key,
                 s3_uri |-> <<"s3:", "", bucket>> \o s3_key]
           ELSE NotFound(pmid)

FPInit ==
    /\ fp_pc = "start"
    /\ fp_pmids = {}
    /\ fp_listing = {}
    /\ existing_pdfs = {}
    /\ fp_done = {}
    /\ fp_results = <<>>

\* main, lines 166-170, and check_pmids_in_s3, lines 101-105: the PMIDs are
\* read and the bucket is listed once
FP_GetExistingPdfs(pmids, listing) ==
    /\ fp_pc = "start"
    /\ fp_pmids' = pmids
    /\ fp_listing' = listing
    /\ existing_pdfs' = get_existing_pdfs(listing)
    /\ fp_pc' = "as_completed"
    /\ UNCHANGED <<fp_done, fp_results>>
    /\ OnlyFP

\* lines 107-126: as_completed yields the future of a PMID, in any order,
\* and its result is appended
FP_Result(pmid) ==
    /\ fp_pc = "as_completed"
    /\ pmid \in fp_pmids \ fp_done
    /\ fp_results' = Append(fp_results,
                            check_single_pmid(pmid, existing_pdfs, BUCKET_NAME))
    /\ fp_done' = fp_done \cup {pmid}
    /\ UNCHANGED <<fp_pc, fp_pmids, fp_listing, existing_pdfs>>
    /\ OnlyFP

\* line 128: every future was yielded; results is returned
FP_Return ==
    /\ fp_pc = "as_completed"
    /\ fp_done = fp_pmids
    /\ fp_pc' = "returned"
    /\ UNCHANGED <<fp_pmids, fp_listing, existing_pdfs, fp_done, fp_results>>
    /\ OnlyFP

NextFindPmids ==
    \/ \E pmids \in SUBSET FpPmids, listing \in FpListings :
          FP_GetExistingPdfs(pmids, listing)
    \/ \E pmid \in FpPmids : FP_Result(pmid)
    \/ FP_Return

----------------------------------------------------------------------------
(***************************************************************************)
(* aws_download.py: __main__, from found_pmids.txt to the download_file    *)
(* calls that parallel_download submits.                                   *)
(***************************************************************************)
\* line 185: file_manifest[:100]
ManifestLimit == 100

\* the lines of found_pmids.txt: up to MaxLines lines of any kind, followed
\* or not by a long run of entries with PMIDs of their own
DmLineKinds == Lines \cup {<<<<"2">>, "s3://osm2/pdfs/2.pdf">>}

Digit(n) == CASE n = 0 -> "0" [] n = 1 -> "1" [] OTHER -> "2"

LongRunPmid(i) ==
    <<"1", Digit((i \div 81) % 3), Digit((i \div 27) % 3), Digit((i \div 9) % 3),
      Digit((i \div 3) % 3), Digit(i % 3)>>

LongRun == [i \in 1..ManifestLimit |-> <<LongRunPmid(i), "s3://osm/pdfs/1.pdf">>]

DmFiles == {head \o tail : head \in SeqUpTo(DmLineKinds, MaxLines),
                           tail \in {<<>>, LongRun}}

DMInit ==
    /\ dm_pc = "start"
    /\ dm_lines = <<>>
    /\ dm_manifest = <<>>
    /\ bucket_name = "-"
    /\ dm_submitted = <<>>

\* lines 172-173: found_pmids.txt is read into file_manifest
DM_ReadPmidLocations(lines) ==
    /\ dm_pc = "start"
    /\ dm_lines' = lines
    /\ dm_manifest' = read_pmid_locations(lines).file_manifest
    /\ dm_pc' = "L176"
    /\ UNCHANGED <<bucket_name, dm_submitted>>
    /\ OnlyDM

\* lines 176-177: the first line of the file is split in two and its URI
\* gives the bucket; StopIteration for an empty file and ValueError for a
\* first line without exactly two fields end the script
DM_BucketName ==
    /\ dm_pc = "L176"
    /\ IF Len(dm_lines) > 0 /\ Len(dm_lines[1]) = 2
          THEN /\ bucket_name' = parse_s3_uri(dm_lines[1][2]).bucket
               /\ dm_pc' = "L182"
          ELSE /\ dm_pc' = "raised"
               /\ UNCHANGED bucket_name
    /\ UNCHANGED <<dm_lines, dm_manifest, dm_submitted>>
    /\ OnlyDM

\* download_file, lines 70-78: the call of s3_client.download_file for an
\* entry: Bucket, Key and the local path under local_dir
DownloadCall(file_info, bucket) ==
    [bucket |-> bucket, key |-> file_info.s3_key,
     local_path |-> <<"downloaded_pdfs">> \o <<file_info.local_name.subdir,
                                               file_info.local_name.name>>,
     pmid |-> file_info.pmid]

\* a slice that keeps the whole manifest
Slice_Whole(manifest) == manifest

\* line 185: file_manifest[:100]
Slice(manifest) == SubSeq(manifest, 1, min(Len(manifest), ManifestLimit))

\* lines 179-189 and parallel_download, lines 117-132: one download_file call
\* is submitted for each entry of the sliced manifest, all with bucket_name
DM_ParallelDownload ==
    /\ dm_pc = "L182"
    /\ dm_submitted' = [k \in 1..Len(Slice(dm_manifest)) |->
                           DownloadCall(Slice(dm_manifest)[k], bucket_name)]
    /\ dm_pc' = "submitted"
    /\ UNCHANGED <<dm_lines, dm_manifest, bucket_name>>
    /\ OnlyDM

NextDownloadMain ==
    \/ \E lines \in DmFiles : DM_ReadPmidLocations(lines)
    \/ DM_BucketName
    \/ DM_ParallelDownload

----------------------------------------------------------------------------
Init ==
    /\ RLInit /\ GUInit /\ DPInit /\ ADInit /\ AUInit /\ VPInit /\ RCInit
    /\ WCInit /\ RUInit /\ LKInit /\ FPInit /\ DMInit

SpecRateLimiter == Init /\ [][NextRateLimiter]_vars
SpecGatherUrls == Init /\ [][NextGatherUrls]_vars
SpecDownloadPdfs == Init /\ [][NextDownloadPdfs]_vars
SpecAwsDownload == Init /\ [][NextAwsDownload]_vars
SpecAwsUpload == Init /\ [][NextAwsUpload]_vars
SpecVerifyPdfs == Init /\ [][NextVerifyPdfs]_vars

\* the main process, the workers of the pool and the writer are processes of
\* the operating system: each goes on as long as it can take a step, and
\* extract_hhs_info returns or raises for every file
WriterStep == WR_IsSet \/ WR_Empty \/ WR_Get \/ WR_WriteRow(TRUE) \/ WR_WriteRow(FALSE)
WorkerStep ==
    \/ \E f \in Pdfs : VP_TakePdf(f)
    \/ \E f \in Pdfs, r \in {"row", "error"} : VP_ProcessPdf(f, r)
MainStep == VP_StartWriter \/ VP_SetDone \/ VP_Join
SpecVerifyPdfsFair ==
    /\ Init /\ [][NextVerifyPdfs]_vars
    /\ WF_vars(WriterStep) /\ WF_vars(WorkerStep) /\ WF_vars(MainStep)

SpecReconcile == Init /\ [][NextReconcile]_vars

\* download_pdfs.py and aws_download.py are separate scripts: a run is one of
\* them, so the actions of one are taken while the other has not started
NextTransfers ==
    \/ ADInit /\ DP_ProcessChunk
    \/ \E p \in Rows, ok \in BOOLEAN : ADInit /\ DP_Makedirs(p, ok)
    \/ \E p \in Rows : ADInit /\ DP_TryPrimary(p)
    \/ \E p \in Rows, r \in Responses : ADInit /\ DP_PrimaryResponse(p, r)
    \/ \E p \in Rows : ADInit /\ DP_TryBackup(p)
    \/ \E p \in Rows, r \in Responses : ADInit /\ DP_BackupResponse(p, r)
    \/ ADInit /\ DP_GatherDone
    \/ ADInit /\ DP_SleepDone
    \/ ADInit /\ DP_SaveResults
    \/ ADInit /\ DP_KeyboardInterrupt
    \/ DPInit /\ AD_Submit
    \/ \E f \in Files : DPInit /\ AD_Start(f)
    \/ \E f \in Files, ok \in BOOLEAN : DPInit /\ AD_Client(f, ok)
    \/ \E f \in Files, ok \in BOOLEAN : DPInit /\ AD_Download(f, ok)
    \/ \E f \in Files, ok \in BOOLEAN : DPInit /\ AD_Retry(f, ok)
    \/ \E f \in Files : DPInit /\ AD_Collect(f)
    \/ DPInit /\ AD_Summary
    \/ DPInit /\ AD_KeyboardInterrupt

SpecTransfers == Init /\ [][NextTransfers]_vars
SpecWorkerCount == Init /\ [][NextWorkerCount]_vars
SpecRenameAndUpload == Init /\ [][NextRenameAndUpload]_vars
SpecLookup == Init /\ [][NextLookup]_vars
SpecFindPmids == Init /\ [][NextFindPmids]_vars
SpecDownloadMain == Init /\ [][NextDownloadMain]_vars

----------------------------------------------------------------------------
(***************************************************************************)
(* The claims.                                                             *)
(***************************************************************************)
Range(seq) == {seq[k] : k \in 1..Len(seq)}

\* C1: the time between any two consecutively granted permits of the rate
\* limiter (two consecutive passages of the prologue of find_with_timeout)
\* is at least DELAY, for any number of concurrent callers.
C1_PermitsSpaced ==
    \A k \in 1..(Len(permits) - 1) : permits[k + 1] - permits[k] >= DELAY

\* C2: a completed run of the chunked coordinator ends with exactly one
\* outcome per manifest identifier, each carrying its identifier (here:
\* gather_urls and the CSV file main writes from its result).
C2_OneOutcomePerIdentifier ==
    gu_pc = "saved" =>
        /\ Len(missing_pmids_urls.rows) = NPmids
        /\ \A p \in PMIDs :
              Cardinality({k \in 1..Len(missing_pmids_urls.rows) :
                              missing_pmids_urls.rows[k].PMID = p}) = 1

\* work in flight of an item of gather_urls; an item that was dispatched
InFlight(p) == task[p].state = "awaiting" \/ work[p] \in {"queued", "running"}
Dispatched(p) == task[p].state # "none"

\* C3: no item of chunk N+1 is dispatched while an item of chunk N still has
\* work in flight (an awaiting task, or a lookup queued or running in the
\* executor).
C3_ChunkBarrier ==
    \A p, q \in PMIDs :
        (ChunkNumOf(q) = ChunkNumOf(p) + 1 /\ Dispatched(q)) => ~InFlight(p)

\* C4: when the whole-chunk timeout of gather_urls fires, every item of the
\* chunk that had produced an outcome keeps it in all_results, and every
\* pending item of the chunk is recorded there with a timed-out outcome.
C4_ChunkTimeoutKeepsOutcomes ==
    \A p \in PMIDs :
        ChunkNumOf(p) \in timed_out_chunks =>
            /\ task[p].state = "done" => task[p].result \in Range(all_results)
            /\ task[p].state = "cancelled" =>
                  \E k \in 1..Len(all_results) :
                      /\ all_results[k].PMID = p
                      /\ all_results[k].Reason = "timed_out"

\* C5: an identifier whose first candidate location fails and whose second
\* succeeds is reported as a success (here: download_file returns True after
\* the download with the amended key succeeded).
C5_FallbackSucceeds ==
    \A f \in Files :
        (ad_state[f] = "done" /\ ad_attempts[f] = <<"error", "ok">>) =>
            ad_result[f] = "True"

\* a row that was read and has neither a URL nor a Backup URL
NoCandidates(p) ==
    /\ df[p] # NotRead
    /\ df[p].URL \in {"", "NaN"}
    /\ df[p].Backup \in {"", "NaN"}

Gathered(p) ==
    \/ DpChunkOf(p) < dp_i
    \/ DpChunkOf(p) = dp_i /\ dp_pc = "sleep"

\* C7: when gather(return_exceptions=True) yields an exception object for an
\* item of a chunk, the coordinator records a failed outcome for that item's
\* identifier in the results (here: process_chunk and main of download_pdfs).
C7_ExceptionsRecordedAsFailed ==
    \A p \in Rows :
        (Gathered(p) /\ dl_result[p].exc) =>
            DlOutcome(p, "failed") \in Range(results)

\* C8: every failure of an upload becomes a False outcome of upload_file, the
\* remaining files are still processed, and parallel_upload returns normally.
C8_UploadFailuresCaptured ==
    /\ au_pc # "raised"
    /\ \A f \in Uploads : au_state[f] \notin {"raised", "cancelled"}

\* C9: after a KeyboardInterrupt no further item is dispatched and every
\* outcome gathered so far is in the persisted results of the run (here:
\* download_results_<epoch>.csv of download_pdfs).
C9_InterruptKeepsOutcomes ==
    dp_pc = "interrupted" =>
        \A k \in 1..Len(results) :
            /\ download_results.exists
            /\ results[k] \in Range(download_results.rows)

\* C10: every run of a coordinator ends with a summary of outcome counts in
\* which every manifest item is counted exactly once, also when the run is
\* cancelled (here: parallel_download).
C10_SummaryAlwaysEmitted ==
    ad_pc \in {"returned", "interrupted"} =>
        /\ ad_summary.logged
        /\ ad_summary.successes + ad_summary.failures = NFiles

\* C11: at every point of a run the outcome of every item whose processing
\* has completed is already in the persisted report (here: the outcomes of
\* get_urls and missing_pmids_urls.csv of metapub_download).
C11_OutcomesPersistedAsCompleted ==
    \A p \in PMIDs :
        (task[p].state = "done" /\ ~task[p].result.exc) =>
            /\ missing_pmids_urls.exists
            /\ task[p].result \in Range(missing_pmids_urls.rows)

\* C12: when process_pdfs_parallel returns, the CSV file written by
\* writer_process holds exactly one row for every PDF file that was
\* processed, and no result is left in the queue or still to be put.
C12_OneRowPerPdf ==
    vp_pc = "returned" =>
        /\ queue = <<>>
        /\ \A f \in Pdfs :
              /\ vp_work[f] = "returned"
              /\ Cardinality({k \in 1..Len(csv_rows) : csv_rows[k].name = f}) = 1

\* C13: when writer.writerow raises for a dequeued result, the run aborts:
\* the writer does not go on to write a later result, and
\* process_pdfs_parallel does not complete as if the report were whole.
C13_WriteFailureAborts ==
    wr_errors # {} => (wr_pc # "writerow" /\ vp_pc # "returned")

\* C14: at every point of a download the final path pdfs/<pmid>.pdf is
\* absent or holds the complete content of a successful fetch, and a row
\* whose outcome is "failed" has no file at its final path.
C14_AtomicWrite ==
    \A p \in Rows :
        /\ pdf_file[p] \in {"absent", "complete"}
        /\ dl_result[p].Status = "failed" => pdf_file[p] = "absent"

\* a lookup that outlived the budget of its get_urls: find_with_timeout still
\* runs in its executor thread although nobody awaits it any more
Hung(q) ==
    /\ work[q] = "running"
    /\ task[q].state = "done"
    /\ task[q].result.Reason = "Timeout"

\* C15: no identifier gets its timed-out outcome while its lookup is still
\* waiting, unstarted, for an executor thread, all threads being occupied by
\* hung lookups: every later lookup is started.
C15_NoStarvation ==
    [][\A p \in PMIDs :
          (/\ work[p] = "queued"
           /\ work'[p] = "cancelled"
           /\ task'[p].state = "done"
           /\ task'[p].result.Reason = "Timeout")
          => ~(/\ Cardinality(Running) = MaxWorkers
               /\ \A q \in Running : Hung(q))]_vars

\* a list of integers in ascending order without duplicates
Ascending(seq) == \A j, k \in 1..Len(seq) : j < k => seq[j] < seq[k]

\* dedupe(M): the identifiers of the rows of the requested manifest
Dedupe(rows) ==
    {int(rows[k]) : k \in {j \in 1..Len(rows) : IsIntLiteral(rows[j])}}

\* C16: for the requested set M = csv_pmids and the remote set R = s3_pmids,
\* analyze_pmids returns missing_pmids = M - R and extra_pmids = R - M as
\* ascending lists without duplicates and common = |M /\ R|, with counts
\* equal to the set sizes, so that missing + common = |dedupe(M)| =
\* csv_unique and extra + common = s3_unique.
C16_ReconcilerResult ==
    \A n \in 1..Len(analysis) :
        LET a == analysis[n] IN
        /\ Ascending(a.missing_pmids)
        /\ Range(a.missing_pmids) = csv_pmids \ s3_pmids
        /\ Ascending(a.extra_pmids)
        /\ Range(a.extra_pmids) = s3_pmids \ csv_pmids
        /\ a.common = Cardinality(csv_pmids \cap s3_pmids)
        /\ a.missing = Len(a.missing_pmids)
        /\ a.extra = Len(a.extra_pmids)
        /\ a.missing + a.common = a.csv_unique
        /\ a.csv_unique = Cardinality(Dedupe(pmid_csv))
        /\ a.extra + a.common = a.s3_unique
        /\ a.s3_unique = Cardinality(s3_pmids)

\* analyze_pmids has returned for a CSV file with a duplicate row, with two
\* missing PMIDs and an extra one
C16_Witness ==
    /\ Len(analysis) >= 1
    /\ Len(pmid_csv) > Cardinality(Dedupe(pmid_csv))
    /\ analysis[1].missing = 2
    /\ analysis[1].extra >= 1

FirstSeen(texts) ==
    {k \in 1..Len(texts) :
        /\ IsIntLiteral(texts[k])
        /\ \A j \in 1..(k - 1) :
              IsIntLiteral(texts[j]) => int(texts[j]) # int(texts[k])}
Duplicates(texts) ==
    {k \in 1..Len(texts) : IsIntLiteral(texts[k]) /\ k \notin FirstSeen(texts)}
FirstRowOf(texts, k) ==
    CHOOSE j \in FirstSeen(texts) : int(texts[j]) = int(texts[k])
\* the n-th smallest element of a set of row indices
Nth(S, n) == CHOOSE k \in S : Cardinality({j \in S : j <= k}) = n
Logged(message) == SelectSeq(rc_log, LAMBDA e : e.msg = message)
Stems(rows) == [k \in 1..Len(rows) |-> rows[k].stem]

Malformed(texts) == {k \in 1..Len(texts) : ~IsIntLiteral(texts[k])}
\* the lines of found_pmids.txt that are not blank and are no pair of an
\* integer PMID and an S3 URI
MalformedLines(lines) ==
    {k \in 1..Len(lines) :
        /\ lines[k] # <<>>
        /\ Len(lines[k]) # 2 \/ ~IsIntLiteral(lines[k][1])}

\* C19: a row, object name or line whose identifier is no integer is
\* dropped with a logged message and is admitted to no set or list, and
\* parsing continues with the following rows: parse_csv_pmids, get_s3_pmids,
\* parse_csv_inventory, read_pmid_locations.
C19_MalformedDropped ==
    /\ rc_script = "s3_csv_inventory" =>
          /\ csv_pmids = Dedupe(pmid_csv)
          /\ Len(Logged("Invalid PMID format")) = Cardinality(Malformed(pmid_csv))
          /\ rc_pc = "listed" =>
                /\ s3_pmids = {int(o.stem) :
                                  o \in {n \in s3_objects : IsIntLiteral(n.stem)}}
                /\ Len(Logged("Could not parse PMID from filename")) =
                      Cardinality({n \in s3_objects : ~IsIntLiteral(n.stem)})
    /\ rc_script = "aws_upload" =>
          /\ \A n \in 1..Len(upload_list) : IsIntLiteral(upload_list[n].stem)
          /\ processed_accessions = Dedupe(Stems(inventory_csv))
          /\ Len(Logged("Invalid accession number format")) =
                Cardinality(Malformed(Stems(inventory_csv)))
    /\ rc_script = "aws_download" =>
          /\ \A n \in 1..Len(file_manifest) : IsIntLiteral(file_manifest[n].pmid)
          /\ Len(Logged("Skipping malformed line")) =
                Cardinality(MalformedLines(found_pmids))

\* the identifier of an object name of the bucket, in any spelling
RemoteIdentifiers ==
    {int(n.stem) : n \in {o \in s3_inventory : IsIntLiteral(o.stem)}}

\* C20: no file is handed to parallel_upload whose identifier, the integer
\* accession number of its stem, is the identifier of a file of the remote
\* inventory, whatever the spelling of the two file names.
C20_NoRedundantUpload ==
    (rc_script = "aws_upload" /\ Len(filtered_list) >= 1) =>
        \A n \in 1..Len(filtered_list[1]) :
            int(filtered_list[1][n].stem) \notin RemoteIdentifiers

\* C21: at every moment the number of items in flight is at most the limit
\* of the worker pool: max_workers in parallel_download, num_threads in
\* parallel_upload, and the threads of the executor in gather_urls, where
\* an item is in flight while its get_urls awaits or its lookup is queued
\* or running.
C21_BoundedConcurrency ==
    /\ Cardinality(AdRunning) <= max_workers
    /\ Cardinality({f \in Uploads : au_state[f] = "running"}) <= num_threads
    /\ Cardinality({p \in PMIDs : InFlight(p)}) <= MaxWorkers

\* C22: the coordinator never goes from the end of a chunk to the start of
\* the next chunk without the sleep of one second in between, whatever way
\* the chunk ended (gather_urls and download_pdfs.main).
C22_InterChunkDelay ==
    [][/\ (gu_pc = "await" /\ gu_i' < total_pmids) => gu_pc' # "loop"
       /\ (dp_pc = "gather" /\ dp_i < total_chunks) => dp_pc' # "loop"]_vars

\* C23: within one identifier the attempts are sequential and in priority
\* order: an attempt is started only when every earlier attempt of the
\* identifier has ended, and ended in failure; so the backup URL of
\* download_pdf and the amended key of download_file are tried only after a
\* failed primary attempt, and nothing is attempted after a success.
C23_SequentialFallback ==
    /\ \A p \in Rows :
          /\ requests[p] \in {<<>>, <<"URL">>, <<"Backup URL">>,
                              <<"URL", "Backup URL">>}
          /\ Len(responses[p]) <= Len(requests[p])
          /\ \A k \in 2..Len(requests[p]) :
                \A j \in 1..(k - 1) :
                    j <= Len(responses[p]) /\ responses[p][j] # "200"
    /\ \A f \in Files :
          /\ Len(ad_attempts[f]) <= 2
          /\ \A k \in 1..(Len(ad_attempts[f]) - 1) : ad_attempts[f][k] = "error"
          /\ ad_state[f] = "L74" => ad_attempts[f] = <<>>
          /\ ad_state[f] = "L89" => ad_attempts[f] = <<"error">>

\* a run of download_pdfs.py where one row succeeded with its primary URL and
\* another one went on to its backup URL after a failure; or a run of
\* aws_download.py where one entry succeeded at once and another one was
\* retried with the amended key
C23_Witness ==
    \/ /\ \E p \in Rows : responses[p] = <<"200">> /\ dl[p] = "done"
       /\ \E p \in Rows : /\ requests[p] = <<"URL", "Backup URL">>
                          /\ responses[p] = <<"failed", "200">>
    \/ /\ \E f \in Files : ad_attempts[f] = <<"ok">> /\ ad_state[f] = "done"
       /\ \E f \in Files : ad_attempts[f] = <<"error", "ok">>


\* C24: for every number n >= 1 of CPUs get_optimal_worker_count returns
\* 2 * n clamped to [4, 32]: 4 when 2 * n is below 4, 32 when it is above 32
\* and 2 * n otherwise (so for 2 <= n <= 16), and no machine with fewer CPUs
\* gets a larger count.
C24_WorkerPoolSize ==
    wc_pc = "returned" =>
        /\ worker_count \in 4..32
        /\ 2 * cpu_count < 4 => worker_count = 4
        /\ 2 * cpu_count > 32 => worker_count = 32
        /\ (2 <= cpu_count /\ cpu_count <= 16) => worker_count = 2 * cpu_count
        /\ \A m \in 1..cpu_count : get_optimal_worker_count(m) <= worker_count

\* the count was returned on a machine with more than 16 CPUs, where the cap
\* of 32 applies
C24_Witness == wc_pc = "returned" /\ cpu_count > 16 /\ worker_count = 32


Calls == 1..Len(ru_runs)

\* C25: a call with dry_run=True creates no S3 client and calls upload_file
\* for no row, whatever the CSV file holds; and the rows a dry run reports
\* as "Would upload" are exactly the rows, with the same keys, for which a
\* real run on the same CSV file and the same local files calls upload_file
\* (a real run that got its S3 client: without it the call raises at line 37
\* before it reads the CSV file).
C25_DryRun ==
    /\ \A a \in Calls :
          ru_runs[a].dry_run => ~ru_runs[a].client /\ ru_runs[a].uploads = {}
    /\ \A a, b \in Calls :
          (/\ ru_runs[a].dry_run /\ ru_runs[a].end = "returned"
           /\ ~ru_runs[b].dry_run /\ ru_runs[b].end = "returned")
             => ru_runs[a].would = ru_runs[b].uploads

\* a dry run and a real run on a CSV file with a row that is uploaded and a
\* row that is not have both returned
C25_Witness ==
    \E a, b \in Calls :
        /\ ru_runs[a].dry_run /\ ru_runs[a].end = "returned"
        /\ ~ru_runs[b].dry_run /\ ru_runs[b].end = "returned"
        /\ ru_runs[a].would # {}
        /\ Cardinality(ru_runs[b].uploads) < Len(ru_csv.rows)


\* C26: the deadlines are nested in time: the attempt timeout of a lookup
\* that has started expires no later than the item timeout, which expires no
\* later than the chunk timeout; so the item timeout never expires on a
\* started lookup whose attempt timeout has not expired before it.
C26_NestedDeadlines ==
    /\ lk_started # NotStarted =>
          lk_started + attempt_timeout <= item_timeout
    /\ item_timeout <= chunk_timeout
    /\ \A k \in 1..Len(lk_fired) :
          (lk_fired[k] = "item" /\ lk_started # NotStarted) =>
              \E j \in 1..(k - 1) : lk_fired[j] = "attempt"

\* C27: once the timeout of find_with_timeout has expired the call has
\* returned: it is never inside the exit of its with block waiting for a
\* FindIt call that is still running.
C27_BoundedAttempt ==
    "attempt" \in Range(lk_fired) =>
        (lk_work = "returned" \/ lk_findit # "running")


\* C28: process_pdfs_parallel terminates (it returns, or the exception of
\* the pool block propagates after the join); done_event is set once and
\* stays set, and it is set only when the pool has yielded every file or has
\* failed; the writer leaves its loop only when done_event is set and the
\* queue is empty.
C28_WriterTermination ==
    /\ <>(vp_pc \in {"returned", "raised"})
    /\ [][(done_event => done_event')
          /\ (done_event' # done_event => VP_SetDone \/ VP_PoolFails)]_vars
    /\ [](done_event =>
             \/ \A f \in Pdfs : vp_work[f] = "returned"
             \/ vp_pc \in {"join_exc", "raised"})
    /\ [](wr_pc = "exited" => done_event /\ queue = <<>>)

\* the function returned after the writer wrote a row for every file and
\* left its loop
C28_Witness ==
    /\ vp_pc = "returned"
    /\ wr_pc = "exited"
    /\ Len(csv_rows) = NPdfs


\* C29: every result of check_pmids_in_s3 that reports its PMID as found
\* carries the key of an object of the listing, whatever the layout of the
\* keys under pdfs/; and a PMID is reported as found exactly when the
\* listing holds an object whose file name is <pmid>.pdf.
C29_FoundKeysExist ==
    \A k \in 1..Len(fp_results) :
        LET r == fp_results[k]
        IN  /\ r.found => r.s3_key \in fp_listing
            /\ r.found <=>
                  \E key \in fp_listing : PathName(key) = pdf_filename(r.pmid)


\* the entries of found_pmids.txt with a PMID and a URI, in order
WellFormedEntries == SelectSeq(dm_lines, LAMBDA fields : Len(fields) = 2)

\* the directory an entry is downloaded into: the first three characters of
\* the PMID, or "other" for a shorter one
Shard(pmid) ==
    IF Len(pmid) >= 3 THEN SubSeq(pmid, 1, 3) ELSE <<"o", "t", "h", "e", "r">>

\* C30: when the aws_download script has submitted its downloads or has
\* ended, one download was submitted for every well-formed entry of
\* found_pmids.txt, with the bucket and the key of the URI of that entry and
\* the local path <first three characters of the pmid>/<pmid>.pdf (other/
\* for a shorter pmid); and two downloads of different PMIDs have different
\* local paths.
C30_WholeManifestOwnBucket ==
    dm_pc \in {"submitted", "raised"} =>
        /\ Len(dm_submitted) = Len(WellFormedEntries)
        /\ \A k \in 1..Len(dm_submitted) :
              k <= Len(WellFormedEntries) =>
                 LET pmid == WellFormedEntries[k][1]
                     uri == WellFormedEntries[k][2]
                 IN  /\ dm_submitted[k].bucket = parse_s3_uri(uri).bucket
                     /\ dm_submitted[k].key = parse_s3_uri(uri).key
                     /\ dm_submitted[k].local_path =
                           <<"downloaded_pdfs", Shard(pmid), Path(pmid, ".pdf")>>
        /\ \A i, j \in 1..Len(dm_submitted) :
              dm_submitted[i].pmid # dm_submitted[j].pmid =>
                  dm_submitted[i].local_path # dm_submitted[j].local_path

====
